---- MODULE Spec2Model ----
(***************************************************************************)
(* Model of api/app.py, the OMI / Meross device controller.                *)
(*                                                                         *)
(* Python strings are sequences of one-character strings, so that          *)
(* str.lower, str.strip, str.split, " ".join and the `in` substring test   *)
(* are computed, not assumed.  Python None is the string None_ (for        *)
(* Optional[str] values) or the sequence NoneName (for Optional device     *)
(* names).                                                                 *)
(***************************************************************************)
EXTENDS Integers, Sequences, FiniteSets, TLC

VARIABLES
    res,                \* SpecResolver: one call of the Device Resolver
    ext,                \* SpecExtractor: one call of the Transcript Extractor
    user_credentials,   \* _user_credentials: uid -> stored record, or NoRecord
    account,            \* the devices of the vendor account, once a discovery has seen them
    request,            \* the HTTP request being served
    stack,              \* the call stack of the coroutine serving it
    ret,                \* the value or exception a finished call hands its caller
    events,             \* the external calls made so far while serving the request
    response,           \* the HTTP response of the request
    lock,               \* SpecStore: the thread holding _credentials_lock, 0 when free
    threads,            \* SpecStore: the store call each thread is running
    last_set,           \* SpecStore: per uid, what the last set on it stored
    loop,               \* SpecLoop: the request whose handler runs on the event loop, 0 when none
    tasks               \* SpecLoop: the in-flight requests and where their handlers are

\* the variables the server's actions leave alone
pureVars == <<res, ext, lock, threads, last_set, loop, tasks>>

serverVars ==
    <<user_credentials, account, request, stack, ret, events, response,
      lock, threads, last_set, loop, tasks>>

requestVars == <<account, request, stack, ret, events, response>>

vars ==
    <<res, ext, user_credentials, account, request, stack, ret, events, response,
      lock, threads, last_set, loop, tasks>>

(***************************************************************************)
(* Bounds of the model.                                                    *)
(***************************************************************************)
MaxDevices == 2
MaxSegments == 3
NThreads == 2
NTasks == 2

(***************************************************************************)
(* Python's str operations.                                                *)
(***************************************************************************)
UpperAlphabet ==
    <<"A", "B", "C", "D", "E", "F", "G", "H", "I", "J", "K", "L", "M",
      "N", "O", "P", "Q", "R", "S", "T", "U", "V", "W", "X", "Y", "Z">>

LowerAlphabet ==
    <<"a", "b", "c", "d", "e", "f", "g", "h", "i", "j", "k", "l", "m",
      "n", "o", "p", "q", "r", "s", "t", "u", "v", "w", "x", "y", "z">>

Whitespace == {" ", "\t", "\n"}

LowerChar(c) ==
    IF \E i \in 1..Len(UpperAlphabet) : UpperAlphabet[i] = c
    THEN LowerAlphabet[CHOOSE i \in 1..Len(UpperAlphabet) : UpperAlphabet[i] = c]
    ELSE c

\* str.lower()
lower(s) == [i \in 1..Len(s) |-> LowerChar(s[i])]

RECURSIVE lstrip(_)
lstrip(s) ==
    IF s # <<>> /\ s[1] \in Whitespace THEN lstrip(Tail(s)) ELSE s

RECURSIVE rstrip(_)
rstrip(s) ==
    IF s # <<>> /\ s[Len(s)] \in Whitespace
    THEN rstrip(SubSeq(s, 1, Len(s) - 1))
    ELSE s

\* str.strip()
strip(s) == rstrip(lstrip(s))

\* a in b, for two strings
contains(a, b) ==
    \E i \in 0..(Len(b) - Len(a)) : SubSeq(b, i + 1, i + Len(a)) = a

\* str.split(): the maximal runs of non-whitespace characters, in order
RECURSIVE splitFrom(_, _, _)
splitFrom(s, i, word) ==
    IF i > Len(s)
    THEN (IF word = <<>> THEN <<>> ELSE <<word>>)
    ELSE IF s[i] \in Whitespace
         THEN (IF word = <<>> THEN <<>> ELSE <<word>>) \o splitFrom(s, i + 1, <<>>)
         ELSE splitFrom(s, i + 1, Append(word, s[i]))

split(s) == splitFrom(s, 1, <<>>)

\* sep.join(parts)
RECURSIVE join(_, _)
join(sep, parts) ==
    IF parts = <<>> THEN <<>>
    ELSE IF Len(parts) = 1 THEN parts[1]
    ELSE parts[1] \o sep \o join(sep, Tail(parts))

\* Python None where an Optional device name is expected
NoneName == <<"<None>">>

\* `not x` for an Optional[str] device name
NameFalsy(s) == s = NoneName \/ s = <<>>

(***************************************************************************)
(* Device names and queries of the model.                                  *)
(***************************************************************************)
DEFAULT_DEVICE_NAME == <<"L", "i", "v", "i", "n", "g", " ", "R", "o", "o", "m">>

N_Bedroom == <<"B", "e", "d", "r", "o", "o", "m">>
N_BedroomLight == <<"B", "e", "d", "r", "o", "o", "m", " ", "L", "i", "g", "h", "t">>
N_BedroomPadded == <<"B", "e", "d", "r", "o", "o", "m", " ">>
N_LivingRoom == <<"L", "i", "v", "i", "n", "g", " ", "R", "o", "o", "m">>
N_LivingRoomLamp ==
    <<"L", "i", "v", "i", "n", "g", " ", "R", "o", "o", "m", " ", "L", "a", "m", "p">>
N_DiningRoom == <<"D", "i", "n", "i", "n", "g", " ", "R", "o", "o", "m">>
N_KitchenLight == <<"K", "i", "t", "c", "h", "e", "n", " ", "L", "i", "g", "h", "t">>
N_Plug == <<"P", "l", "u", "g">>

Q_bedroom == <<"b", "e", "d", "r", "o", "o", "m">>
Q_Blank == <<" ">>
Q_TurnOnTheLight ==
    <<"t", "u", "r", "n", " ", "o", "n", " ", "t", "h", "e", " ", "l", "i", "g", "h", "t">>
Q_garage == <<"g", "a", "r", "a", "g", "e">>
Q_LIVINGROOM == <<"L", "I", "V", "I", "N", "G", " ", "R", "O", "O", "M">>

\* display names a vendor account can hold (the empty name stands for a
\* device whose name is empty or None)
Names ==
    {<<>>, N_Bedroom, N_BedroomLight, N_BedroomPadded, N_LivingRoom,
     N_LivingRoomLamp, N_DiningRoom, N_KitchenLight, N_Plug}

\* device names a caller can ask for
Queries ==
    {NoneName, <<>>, Q_Blank, Q_bedroom, N_Bedroom, N_BedroomPadded,
     Q_TurnOnTheLight, Q_garage, Q_LIVINGROOM, N_KitchenLight}

\* the uuids the vendor account gives its devices, in list order
Uuids == <<"uuid1", "uuid2", "uuid3", "uuid4">>

\* a device record of the vendor SDK: uuid is the stable identity
Device(u, n, o) == [uuid |-> u, name |-> n, online |-> o]

\* the device lists of at most k devices, uuids given in list order
DeviceListsOf(k) ==
    UNION {{[i \in 1..n |-> Device(Uuids[i], f[i], TRUE)] : f \in [1..n -> Names]} :
              n \in 0..k}

(***************************************************************************)
(* Device Resolver.  A device is returned as its index in the list;        *)
(* 0 is None.                                                              *)
(***************************************************************************)
\* the first index of devices whose device satisfies the test (hits: the
\* indexes that satisfy it), 0 when none does
FirstIndex(hits) ==
    IF hits = {} THEN 0 ELSE CHOOSE i \in hits : \A j \in hits : i <= j

ExactMatch(device, device_name_lower) ==
    /\ ~NameFalsy(device.name)
    /\ lower(device.name) = device_name_lower

PartialMatch(device, device_name_lower) ==
    /\ ~NameFalsy(device.name)
    /\ \/ contains(device_name_lower, lower(device.name))
       \/ contains(lower(device.name), device_name_lower)

RoomMatch(device, words) ==
    /\ ~NameFalsy(device.name)
    /\ \E w \in 1..Len(words) :
          /\ Len(words[w]) > 2
          /\ \E d \in 1..Len(split(lower(device.name))) :
                split(lower(device.name))[d] = words[w]

find_device_by_name(device_name, devices) ==
    IF NameFalsy(device_name) \/ devices = <<>>
    THEN 0
    ELSE LET device_name_lower == strip(lower(device_name))
             all == 1..Len(devices)
             exact == FirstIndex({i \in all : ExactMatch(devices[i], device_name_lower)})
             partial == FirstIndex({i \in all : PartialMatch(devices[i], device_name_lower)})
             room == FirstIndex({i \in all : RoomMatch(devices[i], split(device_name_lower))})
         IN  IF exact # 0 THEN exact
             ELSE IF partial # 0 THEN partial
             ELSE room

get_default_device(devices) ==
    IF devices = <<>>
    THEN 0
    ELSE LET living_room == find_device_by_name(DEFAULT_DEVICE_NAME, devices)
         IN  IF living_room # 0 THEN living_room ELSE 1

\* perform_device_action's choice of the target device among a fetched,
\* non-empty list
target_device(device_name, devices) ==
    LET found == IF ~NameFalsy(device_name)
                 THEN find_device_by_name(device_name, devices)
                 ELSE 0
    IN  IF found # 0 THEN found ELSE get_default_device(devices)

(***************************************************************************)
(* Transcript Extractor.                                                   *)
(***************************************************************************)
T_TurnOn == <<"T", "u", "r", "n", " ", "o", "n">>
T_PadHi == <<" ", "h", "i", "\t">>
T_ok == <<"o", "k">>

SegmentTexts == {<<>>, T_TurnOn, T_PadHi, T_ok}

Segments == [text : SegmentTexts, is_user : BOOLEAN]

SegmentListsOf(k) == UNION {[1..n -> Segments] : n \in 0..k}

\* [seg.text for seg in segments if seg.is_user]
RECURSIVE user_segments(_)
user_segments(segments) ==
    IF segments = <<>> THEN <<>>
    ELSE (IF segments[1].is_user THEN <<segments[1].text>> ELSE <<>>)
            \o user_segments(Tail(segments))

\* the extractor without the is_user filter
extract_text_of_all_segments(segments) ==
    IF segments = <<>>
    THEN <<>>
    ELSE strip(join(<<" ">>, [i \in 1..Len(segments) |-> segments[i].text]))

extract_text_from_segments(segments) ==
    IF segments = <<>>
    THEN <<>>
    ELSE strip(join(<<" ">>, user_segments(segments)))

(***************************************************************************)
(* The server: values, call frames, calls and returns.                     *)
(***************************************************************************)
\* Python None where an Optional[str] is expected
None_ == "None"

\* `x is None` where `not x` is meant: the empty string passes
IsNone(x) == x = None_

\* `not x` for an Optional[str]
Falsy(x) == x = None_ \/ x = ""

\* a user-facing message: a fixed text (tag) and the device name put in it
Msg(tag, name) == [tag |-> tag, name |-> name]

NoneMsg == Msg("None", <<>>)

\* no call has finished / the value of a finished call has been taken
NoRet ==
    [kind |-> "none", type |-> "", status |-> 0, detail |-> "", val |-> <<>>,
     from |-> "", base |-> 0]

NoRecord == [email |-> None_, password |-> None_, present |-> FALSE]

NoRequest == [handler |-> "none"]

\* no discovery has run yet while serving the request
NoAccount == [fetched |-> FALSE, devices |-> <<>>]

\* the user identifiers of the model
Uids == {"u1", "s1"}

\* a thread that runs no call of the Credential Store
ThreadIdle ==
    [op |-> "idle", pc |-> "idle", uid |-> "", email |-> None_, password |-> None_,
     creds |-> NoRecord, seen_email |-> None_, seen_password |-> None_,
     result |-> NoRecord, found |-> FALSE, disturbed |-> FALSE]

\* no request is in flight in this slot
TaskIdle == [handler |-> "none", pc |-> "idle", stage |-> 0, attempt_number |-> 0]

NoResponse == [status |-> 0, body |-> <<>>]

\* an external call made while serving the request: login opens session s,
\* close and logout are cleanup's two calls on session s, turn_on and
\* turn_off are commands sent to device d through session s
Event(e, s, d) == [e |-> e, s |-> s, d |-> d]

\* the sessions opened so far while serving the request
SessionCount == Cardinality({i \in DOMAIN events : events[i].e = "login"})

\* the frame of a call: its function, its position, its arguments and locals
\* (base: the sessions opened before it was called)
Frame0 ==
    [fn |-> "", pc |-> "start", base |-> 0,
     email |-> None_, password |-> None_, device_uuid |-> None_,
     device_name |-> NoneName, action |-> "",
     session |-> 0, devices |-> <<>>, device |-> 0, detail |-> "",
     pending |-> NoRet,
     uid |-> None_, has_creds |-> FALSE, transcript |-> <<>>,
     attempt_number |-> 0, outcome |-> "",
     intent |-> <<>>, response_message |-> NoneMsg]

Top == stack[Len(stack)]

Running(fns, pc) == stack # <<>> /\ Top.fn \in fns /\ Top.pc = pc

\* the caller moves to `caller` and waits for `callee`
Call(caller, callee) ==
    stack' = Append([stack EXCEPT ![Len(stack)] = caller],
                    [callee EXCEPT !.base = SessionCount])

Goto(frame) == stack' = [stack EXCEPT ![Len(stack)] = frame]

Pop == stack' = SubSeq(stack, 1, Len(stack) - 1)

\* return val
ReturnOk(val) ==
    /\ Pop
    /\ ret' = [NoRet EXCEPT !.kind = "ok", !.val = val,
                            !.from = Top.fn, !.base = Top.base]

\* raise an exception of the given type (status, detail: HTTPException's)
Raise(type, status, detail) ==
    /\ Pop
    /\ ret' = [NoRet EXCEPT !.kind = "exc", !.type = type, !.status = status,
                            !.detail = detail, !.from = Top.fn, !.base = Top.base]

\* hand on what r holds (a pending return value, or an exception passing through)
Deliver(r) ==
    /\ Pop
    /\ ret' = [r EXCEPT !.from = Top.fn, !.base = Top.base]

ServerIdle ==
    /\ user_credentials = [u \in Uids |-> NoRecord]
    /\ account = NoAccount
    /\ request = NoRequest
    /\ stack = <<>>
    /\ ret = NoRet
    /\ events = <<>>
    /\ response = NoResponse
    /\ lock = 0
    /\ threads = [t \in 1..NThreads |-> ThreadIdle]
    /\ last_set = [u \in Uids |-> NoRecord]
    /\ loop = 0
    /\ tasks = [t \in 1..NTasks |-> TaskIdle]

(***************************************************************************)
(* SpecResolver: the Device Resolver applied to every query and list.      *)
(***************************************************************************)
ResolverIdle == [pc |-> "idle", op |-> "none", device_name |-> <<>>, devices |-> <<>>, result |-> 0]

ExtractorIdle == [pc |-> "idle", segments |-> <<>>, text |-> <<>>]

InitResolver ==
    /\ res \in [pc : {"input"}, op : {"none"}, device_name : Queries,
                devices : DeviceListsOf(MaxDevices), result : {0}]
    /\ ext = ExtractorIdle
    /\ ServerIdle

FindDeviceByName ==
    /\ res.pc = "input"
    /\ res' = [res EXCEPT !.pc = "done", !.op = "find",
                          !.result = find_device_by_name(res.device_name, res.devices)]
    /\ UNCHANGED <<ext, serverVars>>

GetDefaultDevice ==
    /\ res.pc = "input"
    /\ res' = [res EXCEPT !.pc = "done", !.op = "default",
                          !.result = get_default_device(res.devices)]
    /\ UNCHANGED <<ext, serverVars>>

TargetDevice ==
    /\ res.pc = "input"
    /\ res.devices # <<>>
    /\ res' = [res EXCEPT !.pc = "done", !.op = "target",
                          !.result = target_device(res.device_name, res.devices)]
    /\ UNCHANGED <<ext, serverVars>>

NextResolver == FindDeviceByName \/ GetDefaultDevice \/ TargetDevice

SpecResolver == InitResolver /\ [][NextResolver]_vars

(***************************************************************************)
(* SpecExtractor: the Transcript Extractor applied to every segment list.  *)
(***************************************************************************)
InitExtractor ==
    /\ ext \in [pc : {"input"}, segments : SegmentListsOf(MaxSegments), text : {<<>>}]
    /\ res = ResolverIdle
    /\ ServerIdle

ExtractText ==
    /\ ext.pc = "input"
    /\ ext' = [ext EXCEPT !.pc = "done",
                          !.text = extract_text_from_segments(ext.segments)]
    /\ UNCHANGED <<res, serverVars>>

NextExtractor == ExtractText

SpecExtractor == InitExtractor /\ [][NextExtractor]_vars

\* the values a credential cookie can have
CookieEmails == {None_, "", "e1"}
CookiePasswords == {None_, "", "p1"}

\* the device lists a vendor account holds in the model
Accounts ==
    {<<>>,
     <<Device(Uuids[1], N_Plug, TRUE)>>,
     <<Device(Uuids[1], N_BedroomLight, FALSE), Device(Uuids[2], N_LivingRoom, TRUE)>>,
     <<Device(Uuids[1], N_KitchenLight, TRUE), Device(Uuids[2], N_DiningRoom, TRUE)>>}

UnknownUuid == "uuid-unknown"

\* no request is being served
Idle == stack = <<>> /\ ret.kind = "none"

(***************************************************************************)
(* Vendor session helpers: get_all_devices, get_device, cleanup.           *)
(* An awaited vendor call either returns or raises; which is the vendor's  *)
(* choice.                                                                 *)
(***************************************************************************)
VendorError == "Exception"

\* get_all_devices: `if not email or not password: raise HTTPException(401)`
GadCheck ==
    /\ Running({"get_all_devices"}, "start")
    /\ IF Falsy(Top.email) \/ Falsy(Top.password)
       THEN Raise("HTTPException", 401, "credentials not provided")
       ELSE Goto([Top EXCEPT !.pc = "login"]) /\ UNCHANGED ret
    /\ UNCHANGED <<pureVars, user_credentials, account, request, events, response>>

\* get_all_devices: MerossHttpClient.async_from_user_password opens the session
GadLogin ==
    /\ Running({"get_all_devices"}, "login")
    /\ \/ /\ events' = Append(events, Event("login", SessionCount + 1, ""))
          /\ Goto([Top EXCEPT !.pc = "init", !.session = SessionCount + 1])
          /\ UNCHANGED ret
       \/ /\ Raise(VendorError, 0, "login failed")
          /\ UNCHANGED events
    /\ UNCHANGED <<pureVars, user_credentials, account, request, response>>

\* get_all_devices: manager.async_init()
GadInit ==
    /\ Running({"get_all_devices"}, "init")
    /\ \/ Goto([Top EXCEPT !.pc = "discovery"]) /\ UNCHANGED ret
       \/ Raise(VendorError, 0, "async_init failed")
    /\ UNCHANGED <<pureVars, user_credentials, account, request, events, response>>

\* get_all_devices: manager.async_device_discovery(), find_devices(), return;
\* the account holds the same devices for as long as one request is served
GadDiscovery ==
    /\ Running({"get_all_devices"}, "discovery")
    /\ \/ \E devices \in Accounts :
             /\ account.fetched => devices = account.devices
             /\ account' = [fetched |-> TRUE, devices |-> devices]
             /\ ReturnOk([session |-> Top.session, devices |-> devices])
       \/ /\ Raise(VendorError, 0, "discovery failed")
          /\ UNCHANGED account
    /\ UNCHANGED <<pureVars, user_credentials, request, events, response>>

\* get_device: manager, http_api_client, all_devices = await get_all_devices(...)
GdCall ==
    /\ Running({"get_device"}, "start")
    /\ Call([Top EXCEPT !.pc = "after_get_all_devices"],
            [Frame0 EXCEPT !.fn = "get_all_devices",
                           !.email = Top.email, !.password = Top.password])
    /\ UNCHANGED <<pureVars, user_credentials, account, request, ret, events, response>>

\* next((d for d in all_devices if d.uuid == device_uuid), None), as an index
DeviceByUuid(all_devices, device_uuid) ==
    FirstIndex({i \in 1..Len(all_devices) : all_devices[i].uuid = device_uuid})

\* get_device: the empty list, the lookup by uuid, the default all_devices[0]
GdSelect ==
    /\ Running({"get_device"}, "after_get_all_devices")
    /\ IF ret.kind = "exc"
       THEN Deliver(ret)
       ELSE LET all_devices == ret.val.devices
                f == [Top EXCEPT !.session = ret.val.session, !.devices = all_devices]
                cleanup == [Frame0 EXCEPT !.fn = "cleanup", !.session = ret.val.session]
                found == DeviceByUuid(all_devices, Top.device_uuid)
            IN  /\ ret' = NoRet
                /\ IF all_devices = <<>>
                   THEN Call([f EXCEPT !.pc = "raise", !.detail = "No devices found"], cleanup)
                   ELSE IF ~Falsy(Top.device_uuid)
                   THEN IF found = 0
                        THEN Call([f EXCEPT !.pc = "raise", !.detail = "Device not found"],
                                  cleanup)
                        ELSE Goto([f EXCEPT !.pc = "update", !.device = found])
                   ELSE Goto([f EXCEPT !.pc = "update", !.device = 1])
    /\ UNCHANGED <<pureVars, user_credentials, account, request, events, response>>

\* get_device: raise HTTPException(status_code=404, ...) after cleanup
GdRaise ==
    /\ Running({"get_device"}, "raise")
    /\ Raise("HTTPException", 404, Top.detail)
    /\ UNCHANGED <<pureVars, user_credentials, account, request, events, response>>

\* get_device: await device.async_update(); return manager, http_api_client, device
GdUpdate ==
    /\ Running({"get_device"}, "update")
    /\ \/ ReturnOk([session |-> Top.session, device |-> Top.devices[Top.device]])
       \/ Raise(VendorError, 0, "async_update failed")
    /\ UNCHANGED <<pureVars, user_credentials, account, request, events, response>>

\* cleanup: manager.close(); an exception is logged and cleanup returns
CleanupClose ==
    /\ Running({"cleanup"}, "start")
    /\ events' = Append(events, Event("close", Top.session, ""))
    /\ \/ Goto([Top EXCEPT !.pc = "logout"]) /\ UNCHANGED ret
       \/ ReturnOk(<<>>)
    /\ UNCHANGED <<pureVars, user_credentials, account, request, response>>

\* cleanup: await http_api_client.async_logout(); whether it returns or
\* raises, cleanup returns
CleanupLogout ==
    /\ Running({"cleanup"}, "logout")
    /\ events' = Append(events, Event("logout", Top.session, ""))
    /\ ReturnOk(<<>>)
    /\ UNCHANGED <<pureVars, user_credentials, account, request, response>>

(***************************************************************************)
(* Action Executor: turn_on_device, turn_off_device.                       *)
(***************************************************************************)
Executors == {"turn_on_device", "turn_off_device"}

\* the Action Executor's entry points
ActionExecutors == {"turn_on_device", "turn_off_device", "perform_device_action"}

CommandOf(fn) == IF fn = "turn_on_device" THEN "turn_on" ELSE "turn_off"

\* manager, http_api_client, device = await get_device(email, password, device_uuid)
TurnCall ==
    /\ Running(Executors, "start")
    /\ Call([Top EXCEPT !.pc = "after_get_device"],
            [Frame0 EXCEPT !.fn = "get_device", !.email = Top.email,
                           !.password = Top.password, !.device_uuid = Top.device_uuid])
    /\ UNCHANGED <<pureVars, user_credentials, account, request, ret, events, response>>

\* get_device is called outside the try block: its exception passes through
TurnAfterGetDevice ==
    /\ Running(Executors, "after_get_device")
    /\ IF ret.kind = "exc"
       THEN Deliver(ret)
       ELSE /\ Goto([Top EXCEPT !.pc = "command", !.session = ret.val.session,
                                !.devices = <<ret.val.device>>, !.device = 1])
            /\ ret' = NoRet
    /\ UNCHANGED <<pureVars, user_credentials, account, request, events, response>>

\* try: await device.async_turn_on(channel=0); return True, f"Turned on {name}"
\* finally: await cleanup(manager, http_api_client)
TurnCommand ==
    /\ Running(Executors, "command")
    /\ LET device == Top.devices[Top.device]
           done == [NoRet EXCEPT
                       !.kind = "ok",
                       !.val = [success |-> TRUE,
                                message |-> Msg(CommandOf(Top.fn), device.name)]]
           failed == [NoRet EXCEPT !.kind = "exc", !.type = VendorError,
                                   !.detail = "command failed"]
       IN  /\ events' = Append(events, Event(CommandOf(Top.fn), Top.session, device.uuid))
           /\ \E outcome \in {done, failed} :
                 Call([Top EXCEPT !.pc = "after_cleanup", !.pending = outcome],
                      [Frame0 EXCEPT !.fn = "cleanup", !.session = Top.session])
    /\ UNCHANGED <<pureVars, user_credentials, account, request, ret, response>>

\* a finally block followed by another try of a failed command
TurnAfterCleanupRetrying ==
    /\ Running(Executors, "after_cleanup")
    /\ IF Top.pending.kind = "exc"
       THEN Goto([Top EXCEPT !.pc = "command", !.pending = NoRet]) /\ UNCHANGED ret
       ELSE Deliver(Top.pending)
    /\ UNCHANGED <<pureVars, user_credentials, account, request, events, response>>

\* the finally block is over: the return value or the exception goes on
TurnAfterCleanup ==
    /\ Running(Executors, "after_cleanup")
    /\ Deliver(Top.pending)
    /\ UNCHANGED <<pureVars, user_credentials, account, request, events, response>>

(***************************************************************************)
(* perform_device_action.                                                  *)
(***************************************************************************)
ExecutorFor(action) ==
    IF action = "turn_on" THEN "turn_on_device" ELSE "turn_off_device"

Result(success, message) ==
    [NoRet EXCEPT !.kind = "ok", !.val = [success |-> success, message |-> message]]

\* with a device_uuid: the action runs on it directly; without: the devices
\* are fetched first (manager, http_api_client, devices = None, None, None)
PdaStart ==
    /\ Running({"perform_device_action"}, "start")
    /\ IF ~Falsy(Top.device_uuid)
       THEN IF Top.action \in {"turn_on", "turn_off"}
            THEN /\ Call([Top EXCEPT !.pc = "after_turn_by_uuid"],
                         [Frame0 EXCEPT !.fn = ExecutorFor(Top.action),
                                        !.email = Top.email, !.password = Top.password,
                                        !.device_uuid = Top.device_uuid])
                 /\ UNCHANGED ret
            ELSE Deliver(Result(FALSE, Msg("Unsupported action.", <<>>)))
       ELSE /\ Call([Top EXCEPT !.pc = "after_get_all_devices"],
                    [Frame0 EXCEPT !.fn = "get_all_devices",
                                   !.email = Top.email, !.password = Top.password])
            /\ UNCHANGED ret
    /\ UNCHANGED <<pureVars, user_credentials, account, request, events, response>>

\* return success, message (an exception of turn_on_device passes through)
PdaAfterTurnByUuid ==
    /\ Running({"perform_device_action"}, "after_turn_by_uuid")
    /\ Deliver(ret)
    /\ UNCHANGED <<pureVars, user_credentials, account, request, events, response>>

\* the try block after get_all_devices: the empty list, the target device,
\* the action on it; when get_all_devices raised, manager is still None and
\* the finally block cleans nothing up
PdaAfterGetAllDevices ==
    /\ Running({"perform_device_action"}, "after_get_all_devices")
    /\ IF ret.kind = "exc"
       THEN Deliver(ret)
       ELSE LET devices == ret.val.devices
                f == [Top EXCEPT !.session = ret.val.session, !.devices = devices]
                cleanup == [Frame0 EXCEPT !.fn = "cleanup", !.session = ret.val.session]
                target == target_device(Top.device_name, devices)
                finally(result) ==
                    Call([f EXCEPT !.pc = "after_cleanup", !.pending = result], cleanup)
            IN  /\ ret' = NoRet
                /\ IF devices = <<>>
                   THEN finally(Result(FALSE, Msg("No devices found in your Meross account.",
                                                  <<>>)))
                   ELSE IF target = 0
                   THEN finally(Result(FALSE, Msg("No devices available.", <<>>)))
                   ELSE IF Top.action \in {"turn_on", "turn_off"}
                   THEN Call([f EXCEPT !.pc = "after_turn", !.device = target],
                             [Frame0 EXCEPT !.fn = ExecutorFor(Top.action),
                                            !.email = Top.email,
                                            !.password = Top.password,
                                            !.device_uuid = devices[target].uuid])
                   ELSE finally(Result(FALSE, Msg("Unsupported action.", <<>>)))
    /\ UNCHANGED <<pureVars, user_credentials, account, request, events, response>>

\* finally: if manager and http_api_client: await cleanup(manager, http_api_client)
PdaAfterTurn ==
    /\ Running({"perform_device_action"}, "after_turn")
    /\ Call([Top EXCEPT !.pc = "after_cleanup", !.pending = ret],
            [Frame0 EXCEPT !.fn = "cleanup", !.session = Top.session])
    /\ ret' = NoRet
    /\ UNCHANGED <<pureVars, user_credentials, account, request, events, response>>

PdaAfterCleanup ==
    /\ Running({"perform_device_action"}, "after_cleanup")
    /\ Deliver(Top.pending)
    /\ UNCHANGED <<pureVars, user_credentials, account, request, events, response>>

(***************************************************************************)
(* Intent Inference: infer_intent_from_transcript under tenacity's @retry. *)
(***************************************************************************)
\* a stop condition one attempt later
StopLater == 3 + 1

\* stop_after_attempt(3)
STOP_AFTER_ATTEMPT == 3

\* a key the JSON object does not have
Missing == "<missing>"
MissingName == <<"<missing>">>

\* what json.loads can return: a JSON object with its four values, or a
\* value that is not an object (null, a list, a string, a number)
Intent(action, device, assistant_message, follow_up) ==
    [object |-> TRUE, action |-> action, device |-> device,
     assistant_message |-> assistant_message, follow_up |-> follow_up]

NotAnObject ==
    [object |-> FALSE, action |-> Missing, device |-> MissingName,
     assistant_message |-> Missing, follow_up |-> Missing]

Payloads ==
    {Intent("turn_on", <<>>, "ok", ""),
     Intent("turn_on", Q_bedroom, "ok", "anything else?"),
     Intent("turn_off", Q_garage, "ok", ""),
     Intent("none", <<>>, "which device?", ""),
     Intent("toggle", <<>>, "ok", ""),
     Intent(Missing, MissingName, Missing, Missing),
     NotAnObject}

\* what one call of client.chat.completions.create can end in: an exception
\* (network, timeout, HTTP status), or a response whose content is empty, is
\* not JSON, or is JSON
LlmOutcomes == {"transient", "empty", "malformed", "json"}

\* the exception the function body raises for an outcome: the client's own,
\* ValueError("Empty response from OpenAI"), ValueError("Intent parsing failed")
BodyException(outcome) ==
    IF outcome = "transient" THEN "APIError" ELSE "ValueError"

\* @retry(stop=..., wait=...) names no retry condition: tenacity's default
\* retries on every exception
RetryOn(exception) == TRUE

\* one attempt: the call, the parse, and tenacity's decision after a failure
\* (after the last attempt tenacity raises RetryError); outcome is the
\* failed attempt's outcome, which tenacity keeps in its retry state
IntentAttempt ==
    /\ Running({"infer_intent_from_transcript"}, "start")
    /\ \E outcome \in LlmOutcomes :
          /\ events' = Append(events, Event("llm", Top.attempt_number, ""))
          /\ IF outcome = "json"
             THEN \E payload \in Payloads : ReturnOk(payload)
             ELSE IF ~RetryOn(BodyException(outcome))
             THEN Raise(BodyException(outcome), 0, outcome)
             ELSE IF Top.attempt_number >= STOP_AFTER_ATTEMPT
             THEN Raise("RetryError", 0, outcome)
             ELSE /\ Goto([Top EXCEPT !.attempt_number = @ + 1, !.outcome = outcome])
                  /\ UNCHANGED ret
    /\ UNCHANGED <<pureVars, user_credentials, account, request, response>>

(***************************************************************************)
(* Credential Store, as the handlers of one request at a time use it.      *)
(***************************************************************************)
\* _user_credentials.get(uid): the record of a uid, none for any other key
StoredUnder(uid) ==
    IF uid \in DOMAIN user_credentials THEN user_credentials[uid] ELSE NoRecord

\* get_user_credentials: None, or the (email, password) of the record
get_user_credentials(uid) ==
    IF StoredUnder(uid).present
    THEN <<StoredUnder(uid).email, StoredUnder(uid).password>>
    ELSE <<None_, None_>>

\* a check that is satisfied by the record of any uid
has_any_user_credentials(uid) ==
    \E u \in DOMAIN user_credentials :
        /\ user_credentials[u].present
        /\ ~Falsy(user_credentials[u].email)
        /\ ~Falsy(user_credentials[u].password)

\* has_user_credentials: the uid has a record with an email and a password
has_user_credentials(uid) ==
    /\ StoredUnder(uid).present
    /\ ~Falsy(StoredUnder(uid).email)
    /\ ~Falsy(StoredUnder(uid).password)

(***************************************************************************)
(* The webhook: omi_webhook.                                               *)
(***************************************************************************)
P_set_up == <<"s", "e", "t", " ", "u", "p">>
P_configure == <<"c", "o", "n", "f", "i", "g", "u", "r", "e">>
P_login == <<"l", "o", "g", "i", "n">>
P_credentials == <<"c", "r", "e", "d", "e", "n", "t", "i", "a", "l", "s">>
P_connect == <<"c", "o", "n", "n", "e", "c", "t">>
P_list_devices == <<"l", "i", "s", "t", " ", "d", "e", "v", "i", "c", "e", "s">>
P_show_devices == <<"s", "h", "o", "w", " ", "d", "e", "v", "i", "c", "e", "s">>
P_what_devices == <<"w", "h", "a", "t", " ", "d", "e", "v", "i", "c", "e", "s">>
P_available_devices ==
    <<"a", "v", "a", "i", "l", "a", "b", "l", "e", " ", "d", "e", "v", "i", "c", "e", "s">>

SetupPhrases == {P_set_up, P_configure, P_login, P_credentials, P_connect}

ListPhrases == {P_list_devices, P_show_devices, P_what_devices, P_available_devices}

\* any(phrase in transcript.lower() for phrase in phrases)
AnyPhraseIn(phrases, transcript) ==
    \E phrase \in phrases : contains(phrase, lower(transcript))

T_ListDevices == <<"L", "i", "s", "t", " ", "d", "e", "v", "i", "c", "e", "s">>
T_Login == <<"L", "o", "g", "i", "n">>

\* the segment lists a webhook request carries in the model
WebhookSegments ==
    {<<>>,
     <<[text |-> T_ok, is_user |-> FALSE]>>,
     <<[text |-> T_TurnOn, is_user |-> TRUE], [text |-> T_ok, is_user |-> FALSE]>>,
     <<[text |-> T_ListDevices, is_user |-> TRUE]>>,
     <<[text |-> T_Login, is_user |-> TRUE]>>}

\* OMIWebhookResponse(status="success", message=...); follow_up is the text
\* appended to the message
WebhookResponse(message, follow_up) ==
    [status |-> "success", message |-> message, follow_up |-> follow_up]

\* a webhook request arrives
WebhookRequest ==
    /\ Idle
    /\ response = NoResponse
    /\ \E session_id \in {"", "s1"}, uid \in {None_, "u1"},
          email \in {None_, "e1"}, password \in {None_, "p1"},
          uuid \in {None_, Uuids[2], UnknownUuid},
          segments \in WebhookSegments :
          /\ request' = [handler |-> "omi_webhook", session_id |-> session_id,
                         uid |-> uid, segments |-> segments, meross_email |-> email,
                         meross_password |-> password, device_uuid |-> uuid]
          /\ stack' = <<[Frame0 EXCEPT !.fn = "omi_webhook"]>>
    /\ events' = <<>>
    /\ UNCHANGED <<pureVars, user_credentials, account, ret, response>>

\* from the session_id check to the first awaited call or the first return
WebhookStart ==
    /\ Running({"omi_webhook"}, "start")
    /\ IF Falsy(request.session_id)
       THEN Raise("HTTPException", 400, "No session_id provided")
       ELSE LET uid == IF ~Falsy(request.uid) THEN request.uid ELSE request.session_id
                cookies == ~Falsy(request.meross_email) /\ ~Falsy(request.meross_password)
                email == IF cookies THEN request.meross_email
                         ELSE get_user_credentials(uid)[1]
                password == IF cookies THEN request.meross_password
                            ELSE get_user_credentials(uid)[2]
                has_creds == IF cookies THEN TRUE ELSE has_user_credentials(uid)
                device_uuid == IF cookies THEN request.device_uuid ELSE None_
                transcript == extract_text_from_segments(request.segments)
                f == [Top EXCEPT !.uid = uid, !.email = email, !.password = password,
                                 !.has_creds = has_creds, !.device_uuid = device_uuid,
                                 !.transcript = transcript]
            IN  IF transcript = <<>>
                THEN IF ~has_creds
                     THEN ReturnOk(WebhookResponse(Msg("Please configure", <<>>), ""))
                     ELSE ReturnOk(WebhookResponse(NoneMsg, ""))
                ELSE IF AnyPhraseIn(SetupPhrases, transcript)
                THEN ReturnOk(WebhookResponse(Msg("Please visit /login", <<>>), ""))
                ELSE IF AnyPhraseIn(ListPhrases, transcript)
                THEN IF ~has_creds
                     THEN ReturnOk(WebhookResponse(Msg("Please configure first", <<>>), ""))
                     ELSE /\ Call([f EXCEPT !.pc = "after_get_all_devices"],
                                  [Frame0 EXCEPT !.fn = "get_all_devices",
                                                 !.email = email, !.password = password])
                          /\ UNCHANGED ret
                ELSE IF ~has_creds
                THEN ReturnOk(WebhookResponse(Msg("Please configure first. Visit", <<>>), ""))
                ELSE /\ Call([f EXCEPT !.pc = "after_infer_intent"],
                             [Frame0 EXCEPT !.fn = "infer_intent_from_transcript",
                                            !.transcript = transcript,
                                            !.attempt_number = 1])
                     /\ UNCHANGED ret
    /\ UNCHANGED <<pureVars, user_credentials, account, request, events, response>>

\* ", ".join(d.name for d in devices if d.online), kept as the list of names
RECURSIVE online_names(_)
online_names(devices) ==
    IF devices = <<>> THEN <<>>
    ELSE (IF devices[1].online THEN <<devices[1].name>> ELSE <<>>)
            \o online_names(Tail(devices))

\* the list-devices branch after get_all_devices: its exception is answered
\* with a message; else the names are listed and cleanup runs (finally)
WebhookAfterGetAllDevices ==
    /\ Running({"omi_webhook"}, "after_get_all_devices")
    /\ IF ret.kind = "exc"
       THEN ReturnOk(WebhookResponse(Msg("Error connecting to your Meross account.", <<>>), ""))
       ELSE LET device_names == online_names(ret.val.devices)
                list_message == IF device_names # <<>>
                                THEN Msg("Your devices:", join(<<",", " ">>, device_names))
                                ELSE Msg("No online devices found in your account.", <<>>)
            IN  /\ Call([Top EXCEPT !.pc = "after_cleanup", !.session = ret.val.session,
                                    !.response_message = list_message],
                        [Frame0 EXCEPT !.fn = "cleanup", !.session = ret.val.session])
                /\ ret' = NoRet
    /\ UNCHANGED <<pureVars, user_credentials, account, request, events, response>>

WebhookAfterListCleanup ==
    /\ Running({"omi_webhook"}, "after_cleanup")
    /\ ReturnOk(WebhookResponse(Top.response_message, ""))
    /\ UNCHANGED <<pureVars, user_credentials, account, request, events, response>>

\* intent.get(key, default) on a JSON object, for action, assistant_message
\* and follow_up
IntentGet(intent, key, default) ==
    IF intent[key] = Missing THEN default ELSE intent[key]

\* intent.get("device", "")
IntentGetDevice(intent) ==
    IF intent.device = MissingName THEN <<>> ELSE intent.device

\* `not message` for a message of perform_device_action
MsgFalsy(message) == message.tag \in {"None", ""}

\* if intent.get("follow_up"): response_message = f"{response_message} {follow_up}"
Finish(intent, response_message) ==
    ReturnOk(WebhookResponse(response_message, IntentGet(intent, "follow_up", "")))

\* after infer_intent_from_transcript: its exceptions are answered with a
\* message; intent.get on a value that is not a JSON object raises
\* AttributeError outside every try block
WebhookAfterInferIntent ==
    /\ Running({"omi_webhook"}, "after_infer_intent")
    /\ IF ret.kind = "exc"
       THEN IF ret.type = "ValueError"
            THEN ReturnOk(WebhookResponse(Msg("I'm having trouble understanding", <<>>), ""))
            ELSE ReturnOk(WebhookResponse(Msg("I couldn't analyze that request.", <<>>), ""))
       ELSE LET intent == ret.val
                response_message == Msg(IntentGet(intent, "assistant_message", ""), <<>>)
                intent_device_name == strip(IntentGetDevice(intent))
                use_cookie_device == ~Falsy(Top.device_uuid) /\ intent_device_name = <<>>
            IN  IF ~intent.object
                THEN Raise("AttributeError", 0, "object has no attribute 'get'")
                ELSE IF IntentGet(intent, "action", None_) \in {"turn_on", "turn_off"}
                THEN /\ Call([Top EXCEPT !.pc = "after_perform_device_action",
                                         !.intent = intent,
                                         !.response_message = response_message],
                             [Frame0 EXCEPT
                                 !.fn = "perform_device_action",
                                 !.device_name = IF intent_device_name # <<>>
                                                 THEN intent_device_name ELSE NoneName,
                                 !.action = intent.action,
                                 !.email = Top.email, !.password = Top.password,
                                 !.device_uuid = IF use_cookie_device
                                                 THEN Top.device_uuid ELSE None_])
                     /\ ret' = NoRet
                ELSE Finish(intent, response_message)
    /\ UNCHANGED <<pureVars, user_credentials, account, request, events, response>>

\* after perform_device_action: its exception is answered with a message
WebhookAfterPerformDeviceAction ==
    /\ Running({"omi_webhook"}, "after_perform_device_action")
    /\ IF ret.kind = "exc"
       THEN Finish(Top.intent, Msg("I had trouble controlling the device.", <<>>))
       ELSE IF ret.val.success
       THEN Finish(Top.intent, ret.val.message)
       ELSE Finish(Top.intent, IF MsgFalsy(ret.val.message)
                               THEN Top.response_message ELSE ret.val.message)
    /\ UNCHANGED <<pureVars, user_credentials, account, request, events, response>>

(***************************************************************************)
(* The login form: login.                                                  *)
(***************************************************************************)
\* a store write that replaces the record of every uid
set_every_user_credentials(uid, email, password) ==
    user_credentials' =
        [u \in DOMAIN user_credentials |->
            [email |-> email, password |-> password, present |-> TRUE]]

\* _user_credentials[uid] = {"email": email, "password": password}
set_user_credentials(uid, email, password) ==
    user_credentials' =
        [user_credentials EXCEPT ![uid] = [email |-> email, password |-> password,
                                             present |-> TRUE]]

\* the login form is posted
LoginRequest ==
    /\ Idle
    /\ response = NoResponse
    /\ \E uid \in Uids, email \in {"", "e1"}, password \in {"", "p1"} :
          /\ request' = [handler |-> "login", uid |-> uid, email |-> email,
                         password |-> password]
          /\ stack' = <<[Frame0 EXCEPT !.fn = "login", !.uid = uid, !.email = email,
                                       !.password = password]>>
    /\ events' = <<>>
    /\ UNCHANGED <<pureVars, user_credentials, account, ret, response>>

\* `if not email or not password:` the form again, with an error; else the
\* credentials are tested by get_all_devices
LoginStart ==
    /\ Running({"login"}, "start")
    /\ IF Falsy(Top.email) \/ Falsy(Top.password)
       THEN ReturnOk([page |-> "login.html", error |-> "required", success |-> FALSE])
       ELSE /\ Call([Top EXCEPT !.pc = "after_get_all_devices"],
                    [Frame0 EXCEPT !.fn = "get_all_devices",
                                   !.email = Top.email, !.password = Top.password])
            /\ UNCHANGED ret
    /\ UNCHANGED <<pureVars, user_credentials, account, request, events, response>>

LoginAfterGetAllDevices ==
    /\ Running({"login"}, "after_get_all_devices")
    /\ IF ret.kind = "exc"
       THEN ReturnOk([page |-> "login.html", error |-> "invalid", success |-> FALSE])
       ELSE /\ Call([Top EXCEPT !.pc = "after_cleanup"],
                    [Frame0 EXCEPT !.fn = "cleanup", !.session = ret.val.session])
            /\ ret' = NoRet
    /\ UNCHANGED <<pureVars, user_credentials, account, request, events, response>>

\* set_user_credentials(uid, email, password), then the success page
LoginStore ==
    /\ Running({"login"}, "after_cleanup")
    /\ set_user_credentials(Top.uid, Top.email, Top.password)
    /\ ReturnOk([page |-> "login.html", error |-> "", success |-> TRUE])
    /\ UNCHANGED <<pureVars, account, request, events, response>>

(***************************************************************************)
(* The JSON login: api_login.                                              *)
(***************************************************************************)
\* credentials are posted as JSON; the uid comes from the meross_uid cookie
ApiLoginRequest ==
    /\ Idle
    /\ response = NoResponse
    /\ \E uid \in {None_, "u1"}, email \in {"", "e1"}, password \in {"", "p1", "p2"} :
          /\ request' = [handler |-> "api_login", uid |-> uid, email |-> email,
                         password |-> password]
          /\ stack' = <<[Frame0 EXCEPT !.fn = "api_login", !.uid = uid, !.email = email,
                                       !.password = password]>>
    /\ events' = <<>>
    /\ UNCHANGED <<pureVars, user_credentials, account, ret, response>>

\* `if not credentials.email or not credentials.password: raise
\* HTTPException(400)`; else the credentials are tested by get_all_devices
ApiLoginStart ==
    /\ Running({"api_login"}, "start")
    /\ IF Falsy(Top.email) \/ Falsy(Top.password)
       THEN Raise("HTTPException", 400, "Email and password are required")
       ELSE /\ Call([Top EXCEPT !.pc = "after_get_all_devices"],
                    [Frame0 EXCEPT !.fn = "get_all_devices",
                                   !.email = Top.email, !.password = Top.password])
            /\ UNCHANGED ret
    /\ UNCHANGED <<pureVars, user_credentials, account, request, events, response>>

\* except Exception: raise HTTPException(401); else await cleanup(...)
ApiLoginAfterGetAllDevices ==
    /\ Running({"api_login"}, "after_get_all_devices")
    /\ IF ret.kind = "exc"
       THEN Raise("HTTPException", 401, "Invalid credentials")
       ELSE /\ Call([Top EXCEPT !.pc = "after_cleanup"],
                    [Frame0 EXCEPT !.fn = "cleanup", !.session = ret.val.session])
            /\ ret' = NoRet
    /\ UNCHANGED <<pureVars, user_credentials, account, request, events, response>>

\* the response with its cookies; `if uid: set_user_credentials(uid, ...)`
ApiLoginStore ==
    /\ Running({"api_login"}, "after_cleanup")
    /\ IF ~Falsy(Top.uid)
       THEN set_user_credentials(Top.uid, Top.email, Top.password)
       ELSE UNCHANGED user_credentials
    /\ ReturnOk([status |-> "success", message |-> "Credentials saved successfully"])
    /\ UNCHANGED <<pureVars, account, request, events, response>>

(***************************************************************************)
(* Device listing: devices_page and list_devices_api.                      *)
(***************************************************************************)
ListingHandlers == {"devices_page", "list_devices_api"}

\* DeviceInfo of every device: a device whose async_update raised is listed
\* as offline
RECURSIVE device_infos(_, _, _)
device_infos(devices, failed, i) ==
    IF i > Len(devices) THEN <<>>
    ELSE <<[uuid |-> devices[i].uuid, name |-> devices[i].name,
            online |-> IF i \in failed THEN FALSE ELSE devices[i].online]>>
            \o device_infos(devices, failed, i + 1)

\* a request for the device page or the device list; only the list API reads
\* the meross_uid cookie
ListingRequest ==
    /\ Idle
    /\ response = NoResponse
    /\ \E handler \in ListingHandlers, email \in {None_, "e1"}, password \in {None_, "p1"},
          uid \in {None_, "u1"} :
          /\ handler = "devices_page" => uid = None_
          /\ request' = [handler |-> handler, uid |-> uid, meross_email |-> email,
                         meross_password |-> password]
          /\ stack' = <<[Frame0 EXCEPT !.fn = handler, !.uid = uid, !.email = email,
                                       !.password = password]>>
    /\ events' = <<>>
    /\ UNCHANGED <<pureVars, user_credentials, account, ret, response>>

\* devices_page: without both cookies the login page; list_devices_api: the
\* stored record of uid replaces missing cookies, and without credentials
\* HTTPException(401); else get_all_devices
ListingStart ==
    /\ Running(ListingHandlers, "start")
    /\ LET cookies == ~Falsy(Top.email) /\ ~Falsy(Top.password)
           stored == Top.fn = "list_devices_api" /\ ~cookies /\ ~Falsy(Top.uid)
                        /\ StoredUnder(Top.uid).present
           email == IF stored THEN get_user_credentials(Top.uid)[1] ELSE Top.email
           password == IF stored THEN get_user_credentials(Top.uid)[2] ELSE Top.password
       IN  IF Falsy(email) \/ Falsy(password)
           THEN IF Top.fn = "devices_page"
                THEN ReturnOk([page |-> "login.html", devices |-> <<>>])
                ELSE Raise("HTTPException", 401, "credentials not configured")
           ELSE /\ Call([Top EXCEPT !.pc = "after_get_all_devices", !.email = email,
                                    !.password = password],
                        [Frame0 EXCEPT !.fn = "get_all_devices",
                                       !.email = email, !.password = password])
                /\ UNCHANGED ret
    /\ UNCHANGED <<pureVars, user_credentials, account, request, events, response>>

\* every device is updated (a failed update lists it as offline), the
\* response is built and cleanup runs (finally); an exception of
\* get_all_devices gives the login page resp. HTTPException(500)
ListingAfterGetAllDevices ==
    /\ Running(ListingHandlers, "after_get_all_devices")
    /\ IF ret.kind = "exc"
       THEN IF Top.fn = "devices_page"
            THEN ReturnOk([page |-> "login.html", devices |-> <<>>])
            ELSE Raise("HTTPException", 500, ret.detail)
       ELSE \E failed \in SUBSET (1..Len(ret.val.devices)) :
               LET device_list == device_infos(ret.val.devices, failed, 1)
                   result == IF Top.fn = "devices_page"
                             THEN [page |-> "devices.html", devices |-> device_list]
                             ELSE [status |-> "success", devices |-> device_list,
                                   count |-> Len(device_list)]
               IN  /\ Call([Top EXCEPT !.pc = "after_cleanup", !.session = ret.val.session,
                                       !.pending = [NoRet EXCEPT !.kind = "ok",
                                                                 !.val = result]],
                           [Frame0 EXCEPT !.fn = "cleanup", !.session = ret.val.session])
                   /\ ret' = NoRet
    /\ UNCHANGED <<pureVars, user_credentials, account, request, events, response>>

\* the finally block is over: the page or the list is returned
ListingAfterCleanup ==
    /\ Running(ListingHandlers, "after_cleanup")
    /\ Deliver(Top.pending)
    /\ UNCHANGED <<pureVars, user_credentials, account, request, events, response>>

(***************************************************************************)
(* Direct endpoints: /on, /off, /devices/{uuid}/on, /devices/{uuid}/off.   *)
(***************************************************************************)
DirectHandlers == {"light_on", "light_off", "device_on", "device_off"}

ExecutorOf(handler) ==
    IF handler \in {"light_on", "device_on"} THEN "turn_on_device" ELSE "turn_off_device"

\* a request arrives at one of the four direct endpoints; the per-device
\* endpoints take the uuid from the path, /on and /off from an optional cookie
DirectRequest ==
    /\ Idle
    /\ response = NoResponse
    /\ \E handler \in DirectHandlers, email \in CookieEmails, password \in CookiePasswords,
          uuid \in {None_, Uuids[1], Uuids[2], UnknownUuid} :
          /\ handler \in {"device_on", "device_off"} => uuid # None_
          /\ request' = [handler |-> handler, meross_email |-> email,
                         meross_password |-> password, device_uuid |-> uuid]
          /\ stack' = <<[Frame0 EXCEPT !.fn = handler, !.email = email,
                                       !.password = password, !.device_uuid = uuid]>>
    /\ events' = <<>>
    /\ UNCHANGED <<pureVars, user_credentials, account, ret, response>>

\* `if not meross_email or not meross_password: raise HTTPException(401)`,
\* else `success, message = await turn_on_device(...)`
DirectCheck ==
    /\ Running(DirectHandlers, "start")
    /\ IF Falsy(Top.email) \/ Falsy(Top.password)
       THEN Raise("HTTPException", 401, "credentials not found")
       ELSE /\ Call([Top EXCEPT !.pc = "after_turn"],
                    [Frame0 EXCEPT !.fn = ExecutorOf(Top.fn), !.email = Top.email,
                                   !.password = Top.password,
                                   !.device_uuid = Top.device_uuid])
            /\ UNCHANGED ret
    /\ UNCHANGED <<pureVars, user_credentials, account, request, events, response>>

\* success -> LightControlResponse; not success -> 500; an HTTPException is
\* raised again; any other exception becomes HTTPException(500)
DirectAfterTurn ==
    /\ Running(DirectHandlers, "after_turn")
    /\ IF ret.kind = "ok"
       THEN IF ret.val.success
            THEN ReturnOk([status |-> "success", message |-> ret.val.message])
            ELSE Raise("HTTPException", 500, "not success")
       ELSE IF ret.type = "HTTPException"
            THEN Deliver(ret)
            ELSE Raise("HTTPException", 500, ret.detail)
    /\ UNCHANGED <<pureVars, user_credentials, account, request, events, response>>

(***************************************************************************)
(* The voice endpoint: handle_voice_command.                               *)
(***************************************************************************)
\* the exception of client.audio.transcriptions.create
TranscriptionError == "APIError"

\* what Whisper can answer with response_format="text"
Transcriptions == {T_TurnOn, T_PadHi}

\* one attempt of transcribe_audio_payload under @retry: empty bytes raise
\* ValueError, the client's exception is raised again, and tenacity retries
\* either one until the last attempt, after which it raises RetryError
TranscribeAttempt ==
    /\ Running({"transcribe_audio_payload"}, "start")
    /\ \E failed \in BOOLEAN :
          LET exception == IF request.audio_bytes = "" THEN "ValueError"
                           ELSE TranscriptionError
          IN  /\ events' = IF request.audio_bytes = "" THEN events
                           ELSE Append(events, Event("stt", Top.attempt_number, ""))
              /\ IF request.audio_bytes # "" /\ ~failed
                 THEN \E transcription \in Transcriptions : ReturnOk(strip(transcription))
                 ELSE IF ~RetryOn(exception)
                 THEN Raise(exception, 0, "")
                 ELSE IF Top.attempt_number >= STOP_AFTER_ATTEMPT
                 THEN Raise("RetryError", 0, "")
                 ELSE /\ Goto([Top EXCEPT !.attempt_number = @ + 1])
                      /\ UNCHANGED ret
    /\ UNCHANGED <<pureVars, user_credentials, account, request, response>>

\* the names handle_voice_command can read at the line that computes
\* has_creds: its parameters and the locals assigned before that line
\* (the module defines no meross_email and no meross_password)
VoiceNames ==
    {"request", "audio", "x_audio_filename", "x_audio_sample_rate",
     "audio_bytes", "filename", "sample_rate", "sample_rate_int", "saved_path",
     "transcript", "intent", "action_result"}

VoiceCommandResponse(transcript, intent, deviceAction) ==
    [status |-> "success", transcript |-> transcript, intent |-> intent,
     deviceAction |-> deviceAction]

\* a request to /voice arrives, with or without audio and with or without
\* the two credential cookies
VoiceRequest ==
    /\ Idle
    /\ response = NoResponse
    /\ \E audio_bytes \in {"", "RIFF"}, email \in {None_, "e1"}, password \in {None_, "p1"} :
          request' = [handler |-> "handle_voice_command", audio_bytes |-> audio_bytes,
                      meross_email |-> email, meross_password |-> password]
    /\ stack' = <<[Frame0 EXCEPT !.fn = "handle_voice_command"]>>
    /\ events' = <<>>
    /\ UNCHANGED <<pureVars, user_credentials, account, ret, response>>

\* from reading the audio to the transcription call
VoiceStart ==
    /\ Running({"handle_voice_command"}, "start")
    /\ IF request.audio_bytes = ""
       THEN Raise("HTTPException", 400, "Provide audio")
       ELSE /\ Call([Top EXCEPT !.pc = "after_transcribe"],
                    [Frame0 EXCEPT !.fn = "transcribe_audio_payload",
                                   !.attempt_number = 1])
            /\ UNCHANGED ret
    /\ UNCHANGED <<pureVars, user_credentials, account, request, events, response>>

\* after transcribe_audio_payload: ValueError becomes HTTPException(500) with
\* its text, any other exception HTTPException(500, "Transcription failed.")
VoiceAfterTranscribe ==
    /\ Running({"handle_voice_command"}, "after_transcribe")
    /\ IF ret.kind = "exc"
       THEN /\ Raise("HTTPException", 500,
                     IF ret.type = "ValueError" THEN ret.detail
                     ELSE "Transcription failed.")
       ELSE /\ Call([Top EXCEPT !.pc = "after_infer_intent", !.transcript = ret.val],
                    [Frame0 EXCEPT !.fn = "infer_intent_from_transcript",
                                   !.transcript = ret.val,
                                   !.attempt_number = 1])
            /\ ret' = NoRet
    /\ UNCHANGED <<pureVars, user_credentials, account, request, events, response>>

\* after infer_intent_from_transcript: its exceptions become
\* HTTPException(500); intent.get on a value that is not a JSON object raises
\* AttributeError; then `meross_email and meross_password` reads meross_email,
\* a name that is not in VoiceNames, which raises NameError outside every try
\* block, so that the lines after it never run
VoiceAfterInferIntent ==
    /\ Running({"handle_voice_command"}, "after_infer_intent")
    /\ "meross_email" \notin VoiceNames
    /\ IF ret.kind = "exc"
       THEN Raise("HTTPException", 500,
                  IF ret.type = "ValueError" THEN ret.detail
                  ELSE "Intent analysis failed.")
       ELSE IF ~ret.val.object
       THEN Raise("AttributeError", 0, "object has no attribute 'get'")
       ELSE Raise("NameError", 0, "name 'meross_email' is not defined")
    /\ UNCHANGED <<pureVars, user_credentials, account, request, events, response>>

\* FastAPI: a returned value is answered with 200, an HTTPException with its
\* status code, any other exception with 500
StatusOf(r) ==
    IF r.kind = "ok" THEN 200
    ELSE IF r.type = "HTTPException" THEN r.status
    ELSE 500

ServerRespond ==
    /\ stack = <<>>
    /\ ret.kind # "none"
    /\ response' = [status |-> StatusOf(ret),
                    body |-> IF ret.kind = "ok" THEN ret.val ELSE ret.detail]
    /\ ret' = NoRet
    /\ UNCHANGED <<pureVars, user_credentials, account, request, stack, events>>

\* the response has been sent: nothing of the request is kept but the store
RequestDone ==
    /\ Idle
    /\ response # NoResponse
    /\ request' = NoRequest
    /\ account' = NoAccount
    /\ events' = <<>>
    /\ response' = NoResponse
    /\ UNCHANGED <<pureVars, user_credentials, stack, ret>>

(***************************************************************************)
(* Spec: the server serving one request after another.                     *)
(***************************************************************************)
Init ==
    /\ res = ResolverIdle
    /\ ext = ExtractorIdle
    /\ ServerIdle

Next ==
    \/ DirectRequest \/ DirectCheck \/ DirectAfterTurn
    \/ TurnCall \/ TurnAfterGetDevice \/ TurnCommand \/ TurnAfterCleanup
    \/ GdCall \/ GdSelect \/ GdRaise \/ GdUpdate
    \/ GadCheck \/ GadLogin \/ GadInit \/ GadDiscovery
    \/ CleanupClose \/ CleanupLogout
    \/ PdaStart \/ PdaAfterTurnByUuid \/ PdaAfterGetAllDevices \/ PdaAfterTurn
    \/ PdaAfterCleanup
    \/ IntentAttempt
    \/ WebhookRequest \/ WebhookStart \/ WebhookAfterGetAllDevices
    \/ WebhookAfterListCleanup \/ WebhookAfterInferIntent
    \/ WebhookAfterPerformDeviceAction
    \/ LoginRequest \/ LoginStart \/ LoginAfterGetAllDevices \/ LoginStore
    \/ ApiLoginRequest \/ ApiLoginStart \/ ApiLoginAfterGetAllDevices \/ ApiLoginStore
    \/ ListingRequest \/ ListingStart \/ ListingAfterGetAllDevices
    \/ ListingAfterCleanup
    \/ VoiceRequest \/ VoiceStart \/ TranscribeAttempt \/ VoiceAfterTranscribe
    \/ VoiceAfterInferIntent
    \/ ServerRespond \/ RequestDone

Spec == Init /\ [][Next]_vars

(***************************************************************************)
(* SpecStore: the Credential Store called from concurrent threads.  A step *)
(* is one access of the dictionary or of the lock.                         *)
(***************************************************************************)
Record(email, password) == [email |-> email, password |-> password, present |-> TRUE]

\* what the threads store
StoredPairs == {<<"e1", "p1">>, <<"e2", "p2">>, <<"", "p3">>}

\* a blocked acquire that ignores the holder
LockIgnored == TRUE

\* `with _credentials_lock:` enters when no thread holds the lock
LockAvailable == lock = 0

InitStore ==
    /\ res = ResolverIdle
    /\ ext = ExtractorIdle
    /\ ServerIdle

\* a thread calls get_user_credentials, set_user_credentials or
\* has_user_credentials
StoreCall(t) ==
    /\ threads[t].op = "idle"
    /\ \E op \in {"get", "set", "has"}, uid \in Uids, pair \in StoredPairs :
          /\ op # "set" => pair = <<"e1", "p1">>
          /\ threads' = [threads EXCEPT ![t] =
                [ThreadIdle EXCEPT !.op = op, !.pc = "acquire", !.uid = uid,
                                   !.email = IF op = "set" THEN pair[1] ELSE None_,
                                   !.password = IF op = "set" THEN pair[2] ELSE None_]]
    /\ UNCHANGED <<loop, tasks, res, ext, user_credentials, requestVars, lock, last_set>>

\* with _credentials_lock:
StoreAcquire(t) ==
    /\ threads[t].pc = "acquire"
    /\ LockAvailable
    /\ lock' = t
    /\ threads' = [threads EXCEPT ![t].pc = "locked"]
    /\ UNCHANGED <<loop, tasks, res, ext, user_credentials, requestVars, last_set>>

\* get_user_credentials: creds = _user_credentials.get(uid)
GetLookup(t) ==
    /\ threads[t].op = "get" /\ threads[t].pc = "locked"
    /\ threads' = [threads EXCEPT ![t].creds = user_credentials[threads[t].uid],
                                  ![t].pc = "read"]
    /\ UNCHANGED <<loop, tasks, res, ext, user_credentials, requestVars, lock, last_set>>

\* get_user_credentials: if creds: return creds.get("email"), creds.get("password")
GetRead(t) ==
    /\ threads[t].op = "get" /\ threads[t].pc = "read"
    /\ threads' = [threads EXCEPT
          ![t].found = threads[t].creds.present,
          ![t].result = threads[t].creds,
          ![t].creds = NoRecord,
          ![t].pc = "release"]
    /\ UNCHANGED <<loop, tasks, res, ext, user_credentials, requestVars, lock, last_set>>

\* set_user_credentials: _user_credentials[uid] = {"email": ..., "password": ...}
SetStore(t) ==
    /\ threads[t].op = "set" /\ threads[t].pc = "locked"
    /\ user_credentials' =
          [user_credentials EXCEPT
              ![threads[t].uid] = Record(threads[t].email, threads[t].password)]
    /\ last_set' = [last_set EXCEPT
                       ![threads[t].uid] = Record(threads[t].email, threads[t].password)]
    /\ threads' = [o \in DOMAIN threads |->
          IF o = t THEN [threads[t] EXCEPT !.pc = "release"]
          ELSE IF threads[o].op = "get" /\ threads[o].uid = threads[t].uid
               THEN [threads[o] EXCEPT !.disturbed = TRUE]
               ELSE threads[o]]
    /\ UNCHANGED <<loop, tasks, res, ext, requestVars, lock>>

\* has_user_credentials: uid in _user_credentials
HasContains(t) ==
    /\ threads[t].op = "has" /\ threads[t].pc = "locked"
    /\ threads' = [threads EXCEPT
          ![t].found = user_credentials[threads[t].uid].present,
          ![t].pc = IF user_credentials[threads[t].uid].present
                    THEN "email" ELSE "release"]
    /\ UNCHANGED <<loop, tasks, res, ext, user_credentials, requestVars, lock, last_set>>

\* has_user_credentials: _user_credentials[uid].get("email") and ...
HasEmail(t) ==
    /\ threads[t].op = "has" /\ threads[t].pc = "email"
    /\ threads' = [threads EXCEPT
          ![t].seen_email = user_credentials[threads[t].uid].email,
          ![t].pc = IF Falsy(user_credentials[threads[t].uid].email)
                    THEN "release" ELSE "password"]
    /\ UNCHANGED <<loop, tasks, res, ext, user_credentials, requestVars, lock, last_set>>

\* has_user_credentials: ... and _user_credentials[uid].get("password")
HasPassword(t) ==
    /\ threads[t].op = "has" /\ threads[t].pc = "password"
    /\ threads' = [threads EXCEPT
          ![t].seen_password = user_credentials[threads[t].uid].password,
          ![t].pc = "release"]
    /\ UNCHANGED <<loop, tasks, res, ext, user_credentials, requestVars, lock, last_set>>

\* the with block is left: the lock is released and the call returns
StoreRelease(t) ==
    /\ threads[t].pc = "release"
    /\ lock' = 0
    /\ threads' = [threads EXCEPT ![t].pc = "done"]
    /\ UNCHANGED <<loop, tasks, res, ext, user_credentials, requestVars, last_set>>

\* the caller has taken the result
StoreReturn(t) ==
    /\ threads[t].pc = "done"
    /\ threads' = [threads EXCEPT ![t] = ThreadIdle]
    /\ UNCHANGED <<loop, tasks, res, ext, user_credentials, requestVars, lock, last_set>>

NextStore ==
    \E t \in 1..NThreads :
        \/ StoreCall(t) \/ StoreAcquire(t) \/ GetLookup(t) \/ GetRead(t)
        \/ SetStore(t) \/ HasContains(t) \/ HasEmail(t) \/ HasPassword(t)
        \/ StoreRelease(t) \/ StoreReturn(t)

SpecStore == InitStore /\ [][NextStore]_vars

(***************************************************************************)
(* SpecLoop: the handlers of concurrent requests on the server's one event *)
(* loop.  The handlers are `async def`: a handler runs on the loop until   *)
(* it awaits; a call that is not awaited keeps the loop until it returns.  *)
(***************************************************************************)
\* the external calls a handler makes, in order: speech-to-text
\* (transcribe_audio_payload), the language model
\* (infer_intent_from_transcript), the vendor cloud (perform_device_action,
\* turn_on_device)
StagesOf(handler) ==
    IF handler = "handle_voice_command" THEN <<"stt", "llm">>
    ELSE IF handler = "omi_webhook" THEN <<"llm", "vendor">>
    ELSE <<"vendor">>

\* a reading in which every call gives the loop back
AwaitedAlways(call) == TRUE

\* `await perform_device_action(...)` / `await turn_on_device(...)` suspend
\* the handler; `transcribe_audio_payload(...)` and
\* `infer_intent_from_transcript(...)` are plain calls of synchronous
\* functions that use the synchronous OpenAI client
Awaited(call) == call = "vendor"

\* the call the handler of task t makes next or is in, "end" after the last
StageOf(task) ==
    IF task.stage \in 1..Len(StagesOf(task.handler))
    THEN StagesOf(task.handler)[task.stage]
    ELSE "end"

InitLoop ==
    /\ res = ResolverIdle
    /\ ext = ExtractorIdle
    /\ ServerIdle

\* a request arrives and its handler is scheduled
LoopAccept(t) ==
    /\ tasks[t].pc = "idle"
    /\ \E handler \in {"omi_webhook", "handle_voice_command", "light_on"} :
          tasks' = [tasks EXCEPT ![t] = [handler |-> handler, pc |-> "ready",
                                         stage |-> 1, attempt_number |-> 1]]
    /\ UNCHANGED <<loop, res, ext, user_credentials, requestVars, lock, threads, last_set>>

\* the idle loop runs a handler that is ready
LoopResume(t) ==
    /\ loop = 0
    /\ tasks[t].pc = "ready"
    /\ loop' = t
    /\ tasks' = [tasks EXCEPT ![t].pc = "running"]
    /\ UNCHANGED <<res, ext, user_credentials, requestVars, lock, threads, last_set>>

\* the running handler starts its next external call: an awaited call gives
\* the loop back, a plain call does not
LoopCall(t) ==
    /\ loop = t
    /\ tasks[t].pc = "running"
    /\ StageOf(tasks[t]) # "end"
    /\ tasks' = [tasks EXCEPT ![t].pc = "external"]
    /\ loop' = IF Awaited(StageOf(tasks[t])) THEN 0 ELSE t
    /\ UNCHANGED <<res, ext, user_credentials, requestVars, lock, threads, last_set>>

\* the external call returns or fails: an awaited call makes the handler
\* ready again; a speech-to-text or language-model call goes on in the
\* running handler, and a failed one is retried by tenacity after a sleep
\* until stop_after_attempt(3)
ExternalReturn(t) ==
    /\ tasks[t].pc = "external"
    /\ \E ok \in BOOLEAN :
          LET call == StageOf(tasks[t])
              resumed == IF loop = t THEN "running" ELSE "ready"
          IN  IF ok
              THEN tasks' = [tasks EXCEPT ![t].stage = @ + 1, ![t].attempt_number = 1,
                                          ![t].pc = resumed]
              ELSE IF call \in {"stt", "llm"} /\ tasks[t].attempt_number < STOP_AFTER_ATTEMPT
              THEN tasks' = [tasks EXCEPT ![t].attempt_number = @ + 1,
                                          ![t].pc = "backoff"]
              ELSE tasks' = [tasks EXCEPT
                                ![t].stage = Len(StagesOf(tasks[t].handler)) + 1,
                                ![t].pc = resumed]
    /\ UNCHANGED <<loop, res, ext, user_credentials, requestVars, lock, threads, last_set>>

\* wait_exponential: tenacity's sleep is over and the call is made again
BackoffOver(t) ==
    /\ tasks[t].pc = "backoff"
    /\ tasks' = [tasks EXCEPT ![t].pc = "external"]
    /\ UNCHANGED <<loop, res, ext, user_credentials, requestVars, lock, threads, last_set>>

\* the handler returns its response or raises, and the loop is free
LoopRespond(t) ==
    /\ loop = t
    /\ tasks[t].pc = "running"
    /\ StageOf(tasks[t]) = "end"
    /\ tasks' = [tasks EXCEPT ![t] = TaskIdle]
    /\ loop' = 0
    /\ UNCHANGED <<res, ext, user_credentials, requestVars, lock, threads, last_set>>

NextLoop ==
    \E t \in 1..NTasks :
        \/ LoopAccept(t) \/ LoopResume(t) \/ LoopCall(t) \/ ExternalReturn(t)
        \/ BackoffOver(t) \/ LoopRespond(t)

SpecLoop == InitLoop /\ [][NextLoop]_vars

(***************************************************************************)
(* SpecFallback: webhook requests that take their credentials from the     *)
(* Credential Store, and logins that write it, as handlers of concurrent   *)
(* requests on the server's one event loop.  Every handler that calls the  *)
(* store is `async def` and calls it without await: other handlers run     *)
(* only while the running one awaits.                                      *)
(***************************************************************************)
\* login and api_login make the same calls around set_user_credentials;
\* login stands for both
LoginHandlers == {"login"}

\* the calls of a handler in order: omi_webhook without credential cookies
\* reads the store twice, infers the intent and performs the action; a
\* login probes the account with get_all_devices and stores the credentials
FallbackStages(handler) ==
    IF handler = "omi_webhook"
    THEN <<"get_user_credentials", "has_user_credentials", "llm", "vendor">>
    ELSE <<"vendor", "set_user_credentials">>

FallbackStage(task) ==
    IF task.stage \in 1..Len(FallbackStages(task.handler))
    THEN FallbackStages(task.handler)[task.stage]
    ELSE "end"

StoreCalls == {"get_user_credentials", "has_user_credentials", "set_user_credentials"}

\* a handler that has been scheduled: the uid of its request, the email and
\* password it holds (a login's form fields, the webhook's locals) and the
\* webhook's has_creds
Coroutine(handler, uid, email, password) ==
    [handler |-> handler, pc |-> "ready", stage |-> 1, attempt_number |-> 1,
     uid |-> uid, email |-> email, password |-> password, has_creds |-> FALSE]

InitFallback ==
    /\ res = ResolverIdle
    /\ ext = ExtractorIdle
    /\ ServerIdle

\* a webhook request without credential cookies or a login arrives
FallbackAccept(t) ==
    /\ tasks[t].pc = "idle"
    /\ \E handler \in LoginHandlers \cup {"omi_webhook"}, uid \in Uids,
          pair \in StoredPairs :
          /\ handler = "omi_webhook" => pair = <<"e1", "p1">>
          /\ tasks' = [tasks EXCEPT ![t] =
                IF handler = "omi_webhook"
                THEN Coroutine(handler, uid, None_, None_)
                ELSE Coroutine(handler, uid, pair[1], pair[2])]
    /\ UNCHANGED <<loop, res, ext, user_credentials, requestVars, lock, threads, last_set>>

\* the running handler calls the store, which takes and releases
\* _credentials_lock within the call: the webhook's
\* `email, password = user_creds if user_creds else (None, None)` and
\* `has_creds = has_user_credentials(uid)`, after which it returns a
\* message when has_creds is false; a login's set_user_credentials
FallbackStoreCall(t) ==
    /\ loop = t
    /\ tasks[t].pc = "running"
    /\ FallbackStage(tasks[t]) \in StoreCalls
    /\ LET call == FallbackStage(tasks[t])
           uid == tasks[t].uid
           after == [tasks[t] EXCEPT !.stage = @ + 1,
                                     !.pc = IF Awaited(call) THEN "ready" ELSE "running"]
       IN  /\ loop' = IF Awaited(call) THEN 0 ELSE t
           /\ IF call = "get_user_credentials"
              THEN /\ tasks' = [tasks EXCEPT ![t] =
                         [after EXCEPT !.email = get_user_credentials(uid)[1],
                                       !.password = get_user_credentials(uid)[2]]]
                   /\ UNCHANGED user_credentials
              ELSE IF call = "has_user_credentials"
              THEN /\ tasks' = [tasks EXCEPT ![t] =
                         [after EXCEPT
                             !.has_creds = has_user_credentials(uid),
                             !.stage = IF has_user_credentials(uid) THEN after.stage
                                       ELSE Len(FallbackStages(after.handler)) + 1]]
                   /\ UNCHANGED user_credentials
              ELSE /\ tasks' = [tasks EXCEPT ![t] = after]
                   /\ set_user_credentials(uid, tasks[t].email, tasks[t].password)
    /\ UNCHANGED <<res, ext, requestVars, lock, threads, last_set>>

\* the running handler starts infer_intent_from_transcript (a plain call)
\* or awaits perform_device_action / get_all_devices
FallbackExternalCall(t) ==
    /\ loop = t
    /\ tasks[t].pc = "running"
    /\ FallbackStage(tasks[t]) \in {"llm", "vendor"}
    /\ tasks' = [tasks EXCEPT ![t].pc = "external"]
    /\ loop' = IF Awaited(FallbackStage(tasks[t])) THEN 0 ELSE t
    /\ UNCHANGED <<res, ext, user_credentials, requestVars, lock, threads, last_set>>

\* the external call returns or raises: get_all_devices raises for an empty
\* email or password; after an exception, and after an intent without a
\* device action, the handler only builds its response
FallbackExternalReturn(t) ==
    /\ tasks[t].pc = "external"
    /\ \E ok \in BOOLEAN :
          LET resumed == IF loop = t THEN "running" ELSE "ready"
              refused == /\ tasks[t].handler \in LoginHandlers
                         /\ (Falsy(tasks[t].email) \/ Falsy(tasks[t].password))
          IN  IF ok /\ ~refused
              THEN tasks' = [tasks EXCEPT ![t].stage = @ + 1, ![t].pc = resumed]
              ELSE tasks' = [tasks EXCEPT
                                ![t].stage = Len(FallbackStages(tasks[t].handler)) + 1,
                                ![t].pc = resumed]
    /\ UNCHANGED <<loop, res, ext, user_credentials, requestVars, lock, threads, last_set>>

\* the handler returns its response or raises, and the loop is free
FallbackRespond(t) ==
    /\ loop = t
    /\ tasks[t].pc = "running"
    /\ FallbackStage(tasks[t]) = "end"
    /\ tasks' = [tasks EXCEPT ![t] = TaskIdle]
    /\ loop' = 0
    /\ UNCHANGED <<res, ext, user_credentials, requestVars, lock, threads, last_set>>

NextFallback ==
    \E t \in 1..NTasks :
        \/ FallbackAccept(t) \/ LoopResume(t) \/ FallbackStoreCall(t)
        \/ FallbackExternalCall(t) \/ FallbackExternalReturn(t) \/ FallbackRespond(t)

SpecFallback == InitFallback /\ [][NextFallback]_vars

(***************************************************************************)
(* Device Resolver properties (SpecResolver).                              *)
(***************************************************************************)
\* the devices whose name equals the query case-insensitively
EqualNameIndexes(device_name, devices) ==
    {i \in 1..Len(devices) : lower(devices[i].name) = lower(device_name)}

Least(S) == CHOOSE i \in S : \A j \in S : i <= j

\* C4: for every non-empty query and every list holding a device whose name
\* equals the query case-insensitively, find_device_by_name returns the first
\* such device of the list.
C4_ExactMatchAlwaysWins ==
    (/\ res.pc = "done"
     /\ res.op = "find"
     /\ ~NameFalsy(res.device_name)
     /\ EqualNameIndexes(res.device_name, res.devices) # {})
        => res.result = Least(EqualNameIndexes(res.device_name, res.devices))

\* C5: with an empty query, or one that no tier matches, and a non-empty list,
\* the target is the first device named exactly (case-insensitively) like the
\* default name, and the first device of the list when there is none.
C5_FallbackIsExactDefaultElseFirst ==
    (/\ res.pc = "done"
     /\ res.op = "target"
     /\ \/ NameFalsy(res.device_name)
        \/ find_device_by_name(res.device_name, res.devices) = 0)
        => res.result =
              (IF EqualNameIndexes(DEFAULT_DEVICE_NAME, res.devices) # {}
               THEN Least(EqualNameIndexes(DEFAULT_DEVICE_NAME, res.devices))
               ELSE 1)

(***************************************************************************)
(* Transcript Extractor properties (SpecExtractor).                        *)
(***************************************************************************)
\* the texts of the user segments among the first n, in order, with one
\* space between consecutive texts
RECURSIVE SpaceJoined(_, _)
SpaceJoined(segments, n) ==
    IF n = 0 THEN <<>>
    ELSE IF ~segments[n].is_user THEN SpaceJoined(segments, n - 1)
    ELSE IF \E i \in 1..(n - 1) : segments[i].is_user
         THEN SpaceJoined(segments, n - 1) \o <<" ">> \o segments[n].text
         ELSE segments[n].text

\* s without its leading and trailing whitespace
Trimmed(s) ==
    LET inked == {i \in 1..Len(s) : s[i] \notin Whitespace}
    IN  IF inked = {} THEN <<>>
        ELSE SubSeq(s, CHOOSE i \in inked : \A j \in inked : i <= j,
                       CHOOSE i \in inked : \A j \in inked : j <= i)

\* C9: the extractor's output is the texts of exactly the user segments, in
\* order, joined by single spaces and trimmed; it is empty when there is no
\* user segment.
C9_ExtractIsTrimmedSpaceJoinOfUserTexts ==
    ext.pc = "done" =>
        /\ ext.text = Trimmed(SpaceJoined(ext.segments, Len(ext.segments)))
        /\ (\A i \in 1..Len(ext.segments) : ~ext.segments[i].is_user)
              => ext.text = <<>>

\* C9 witness: two user segments around a non-user one have been extracted,
\* one of them padded with whitespace
C9_Witness ==
    /\ ext.pc = "done"
    /\ Len(ext.segments) = 3
    /\ ext.segments[1] = [text |-> T_PadHi, is_user |-> TRUE]
    /\ ~ext.segments[2].is_user /\ ext.segments[2].text = T_ok
    /\ ext.segments[3] = [text |-> T_TurnOn, is_user |-> TRUE]
    /\ ext.text = <<"h", "i", "\t", " ", "T", "u", "r", "n", " ", "o", "n">>

(***************************************************************************)
(* Action Executor, Intent Inference and HTTP surface properties (Spec).   *)
(***************************************************************************)
\* how often logout was invoked on session s
LogoutCount(s) ==
    Cardinality({i \in DOMAIN events : events[i].e = "logout" /\ events[i].s = s})

\* the commands sent to devices so far
Commands == {i \in DOMAIN events : events[i].e \in {"turn_on", "turn_off"}}

\* an Action Executor call has just returned or raised
ExecutorEnded == ret.kind # "none" /\ ret.from \in ActionExecutors

\* the sessions acquired during the call that has just ended
SessionsOfEndedCall == (ret.base + 1)..SessionCount

\* C1: when an Action Executor call returns or raises, logout has been
\* invoked exactly once on every session acquired during the call.
C1_SessionReleasedExactlyOnce ==
    ExecutorEnded => \A s \in SessionsOfEndedCall : LogoutCount(s) = 1

\* C2: after a response that is not parseable JSON the language model is not
\* called again by the same invocation of infer_intent_from_transcript: no
\* further attempt is pending once an attempt ended in a parse error.
C2_ParseErrorIsNotRetried ==
    ~(Running({"infer_intent_from_transcript"}, "start") /\ Top.outcome = "malformed")

\* the webhook request being served carries a session_id
WebhookWithSessionId == request.handler = "omi_webhook" /\ ~Falsy(request.session_id)

\* C3: every webhook request that carries a session_id is answered with
\* HTTP 200 and status "success", whatever failed while serving it.
C3_WebhookAlwaysAnswers200 ==
    (WebhookWithSessionId /\ response # NoResponse)
        => (response.status = 200 /\ response.body.status = "success")

\* the failure is reported as "no devices found": raised by get_device as
\* HTTPException(404), returned by perform_device_action as (False, message)
ReportedNoDevices ==
    \/ ret.kind = "exc" /\ ret.status = 404 /\ ret.detail = "No devices found"
    \/ /\ ret.kind = "ok"
       /\ ~ret.val.success
       /\ ret.val.message.tag = "No devices found in your Meross account."

\* C6: when the fetched device list is empty, an Action Executor call ends
\* reporting that no devices were found, has issued no command, and has
\* released every session it opened.
C6_EmptyListFailsCleanly ==
    (ExecutorEnded /\ account.fetched /\ account.devices = <<>>)
        => /\ ReportedNoDevices
           /\ Commands = {}
           /\ \A s \in SessionsOfEndedCall : LogoutCount(s) = 1

\* the direct request being served lacks the email or the password cookie
DirectWithoutCredentials ==
    /\ request.handler \in DirectHandlers
    /\ \/ request.meross_email \in {None_, ""}
       \/ request.meross_password \in {None_, ""}

\* C8: a direct on/off request without the email or the password credential
\* makes no external call (no session is opened, no command is issued) and
\* is answered with HTTP 401.
C8_DirectWithoutCredentialsIs401 ==
    DirectWithoutCredentials
        => /\ events = <<>>
           /\ response # NoResponse => response.status = 401

\* C8 witness: /on with an email cookie and an empty password cookie has
\* been answered with 401
C8_Witness ==
    /\ request.handler = "light_on"
    /\ request.meross_email = "e1"
    /\ request.meross_password = ""
    /\ response.status = 401

\* the output schema of Intent Inference
Actions == {"turn_on", "turn_off", "none"}

SchemaValid(payload) ==
    /\ payload.object
    /\ payload.action \in Actions
    /\ payload.device # MissingName
    /\ payload.assistant_message # Missing
    /\ payload.follow_up # Missing

\* C10: whatever infer_intent_from_transcript returns satisfies the output
\* schema (a response that fails it is an error to the caller).
C10_ReturnedIntentSatisfiesSchema ==
    (ret.kind = "ok" /\ ret.from = "infer_intent_from_transcript")
        => SchemaValid(ret.val)

(***************************************************************************)
(* Credential Store properties (SpecStore).                                *)
(***************************************************************************)
\* the records a set has ever been asked to store
StoredRecords == {Record(pair[1], pair[2]) : pair \in StoredPairs}

\* what has_user_credentials returns from what it has read
HasResult(th) == th.found /\ ~Falsy(th.seen_email) /\ ~Falsy(th.seen_password)

\* C7: the store's operations are atomic with respect to each other: a get
\* that has read a record holds exactly the record stored under its uid, a
\* has that has read both fields has read them from that one record (never a
\* mix of two writes); the record of every uid is what the last set on that
\* uid stored, whatever was set on other uids; and a get that no set on its
\* uid overlapped returns what the last set on its uid stored (None when
\* there was none).
C7_StoreOperationsAreAtomic ==
    /\ \A u \in Uids : user_credentials[u] = last_set[u]
    /\ \A t \in 1..NThreads :
          LET th == threads[t] IN
          /\ (th.op = "get" /\ th.pc = "release")
                => /\ th.result = user_credentials[th.uid]
                   /\ th.found => th.result \in StoredRecords
          /\ (th.op = "has" /\ th.pc = "release" /\ th.seen_password # None_)
                => /\ Record(th.seen_email, th.seen_password) = user_credentials[th.uid]
                   /\ Record(th.seen_email, th.seen_password) \in StoredRecords
          /\ (th.op = "has" /\ th.pc = "release")
                => HasResult(th) = has_user_credentials(th.uid)
          /\ (th.op = "get" /\ th.pc = "done" /\ ~th.disturbed)
                => th.result = last_set[th.uid]

\* C7 witness: a get returns ("e1", "p1") for one uid while another thread
\* holds the lock in a set on the other uid, whose record is ("e2", "p2")
C7_Witness ==
    \E t, o \in 1..NThreads :
        /\ threads[t].op = "get" /\ threads[t].pc = "done"
        /\ threads[t].result = Record("e1", "p1")
        /\ threads[o].op = "set" /\ threads[o].pc = "release"
        /\ threads[o].uid # threads[t].uid
        /\ user_credentials[threads[o].uid] = Record("e2", "p2")

(***************************************************************************)
(* Action Executor and retry properties (Spec).                            *)
(***************************************************************************)
\* the turn_on_device / turn_off_device call that has just ended sent its
\* command and the vendor failed it
CommandFailed ==
    /\ ret.kind # "none"
    /\ ret.from \in Executors
    /\ ret.detail = "command failed"

\* C11: when the vendor fails the on/off command, turn_on_device /
\* turn_off_device return (success=False, message); they do not raise.
C11_CommandFailureIsReturned ==
    CommandFailed => (ret.kind = "ok" /\ ~ret.val.success)

\* a direct request with both credential cookies was answered after the
\* vendor refused to open the session
DirectLoginRejected ==
    /\ request.handler \in DirectHandlers
    /\ ~(request.meross_email \in {None_, ""})
    /\ ~(request.meross_password \in {None_, ""})
    /\ response.status \notin {0, 200}
    /\ response.body = "login failed"

\* C12: a direct on/off request whose credentials the vendor rejects at
\* login is answered with HTTP 401.
C12_RejectedLoginIs401 ==
    DirectLoginRejected => response.status = 401

\* C13: while one request is served (so within one turn_on_device,
\* turn_off_device or perform_device_action call) at most one on/off
\* command is sent to the vendor, also when the command or a later step
\* fails.
C13_CommandIssuedAtMostOnce ==
    Cardinality(Commands) <= 1

\* C13 witness: the one command of a webhook request failed at the vendor,
\* after the language model had been called more than once, and the request
\* has been answered
C13_Witness ==
    /\ request.handler = "omi_webhook"
    /\ response # NoResponse
    /\ Cardinality(Commands) = 1
    /\ Cardinality({i \in DOMAIN events : events[i].e = "llm"}) > 1
    /\ response.status = 200
    /\ response.body.message.tag = "I had trouble controlling the device."

\* the calls made to the language model so far
LlmCalls == Cardinality({i \in DOMAIN events : events[i].e = "llm"})

\* C14: an invocation of infer_intent_from_transcript that has ended made
\* between 1 and 3 language-model calls, and exactly 3 when it ended with an
\* error; while it runs, every call before the pending attempt has failed
\* and fewer than 3 calls have been made.
C14_BetweenOneAndThreeLlmCalls ==
    /\ (ret.kind # "none" /\ ret.from = "infer_intent_from_transcript")
          => /\ LlmCalls \in 1..3
             /\ ret.kind = "exc" => LlmCalls = 3
    /\ Running({"infer_intent_from_transcript"}, "start")
          => /\ LlmCalls = Top.attempt_number - 1
             /\ LlmCalls < 3
             /\ LlmCalls > 0 => Top.outcome \in {"transient", "empty", "malformed"}

\* C14 witness: the third call succeeded after two failed attempts
C14_Witness ==
    /\ ret.kind = "ok"
    /\ ret.from = "infer_intent_from_transcript"
    /\ LlmCalls = 3

(***************************************************************************)
(* Device Resolver tiers (SpecResolver).                                   *)
(***************************************************************************)
\* tier 1: the name equals the query, case-insensitively
TierExact(device_name, devices) ==
    {i \in 1..Len(devices) : lower(devices[i].name) = lower(device_name)}

\* tier 2: the name contains the query or the query contains the name
TierSubstring(device_name, devices) ==
    {i \in 1..Len(devices) :
        \/ contains(lower(device_name), lower(devices[i].name))
        \/ contains(lower(devices[i].name), lower(device_name))}

\* tier 3: a query token longer than 2 characters is one of the name's tokens
TierToken(device_name, devices) ==
    {i \in 1..Len(devices) :
        LET tokens == split(lower(device_name))
            name_tokens == split(lower(devices[i].name))
        IN  \E t \in 1..Len(tokens), n \in 1..Len(name_tokens) :
               Len(tokens[t]) > 2 /\ tokens[t] = name_tokens[n]}

\* the first device of the highest tier that matches any device, 0 if none
TieredResult(device_name, devices) ==
    IF TierExact(device_name, devices) # {}
    THEN Least(TierExact(device_name, devices))
    ELSE IF TierSubstring(device_name, devices) # {}
    THEN Least(TierSubstring(device_name, devices))
    ELSE IF TierToken(device_name, devices) # {}
    THEN Least(TierToken(device_name, devices))
    ELSE 0

\* C16: for a non-empty query and a non-empty list, find_device_by_name
\* returns the first device, in list order, of the highest of the tiers
\* exact, substring (either direction), token overlap that matches any
\* device, and no device when no tier matches.
C16_TiersInOrderFirstMatchWins ==
    (/\ res.pc = "done"
     /\ res.op = "find"
     /\ ~NameFalsy(res.device_name)
     /\ res.devices # <<>>)
        => res.result = TieredResult(res.device_name, res.devices)

(***************************************************************************)
(* Default device of the Action Executor (Spec).                           *)
(***************************************************************************)
\* the resolver's default: the first device named like the default name, or
\* the first device of the list
DefaultIndex(devices) ==
    IF EqualNameIndexes(DEFAULT_DEVICE_NAME, devices) # {}
    THEN Least(EqualNameIndexes(DEFAULT_DEVICE_NAME, devices))
    ELSE 1

\* C18: a direct /on or /off request without a selected-device cookie sends
\* its command to the resolver's default device of the fetched list.
C18_NoIdentityCommandsDefault ==
    (/\ request.handler \in {"light_on", "light_off"}
     /\ request.device_uuid = None_)
        => \A i \in Commands :
              events[i].d = account.devices[DefaultIndex(account.devices)].uuid

(***************************************************************************)
(* Credential Store lifecycle and session scope (Spec).                    *)
(***************************************************************************)
\* the login being served passed the probe: both fields are non-empty and
\* get_all_devices has returned the account's devices
LoginProbeSucceeded ==
    /\ request.handler \in {"login", "api_login"}
    /\ ~Falsy(request.email)
    /\ ~Falsy(request.password)
    /\ account.fetched

\* C17: no step removes an entry of the Credential Store, and a step that
\* changes the store belongs to a form or JSON login whose probe succeeded
\* and replaces exactly the entry of that login's uid by its email and
\* password.
C17_StoreChangesOnlyBySuccessfulLogin ==
    [][/\ \A u \in Uids : user_credentials[u].present => user_credentials'[u].present
       /\ user_credentials' # user_credentials
             => /\ LoginProbeSucceeded
                /\ request.uid \in Uids
                /\ user_credentials' =
                      [user_credentials EXCEPT
                          ![request.uid] = Record(request.email, request.password)]]_vars

\* C17 witness: a JSON login with another password was refused by the probe
\* and the entry stored by an earlier login is still there, the other uid
\* still has none
C17_Witness ==
    /\ request.handler = "api_login"
    /\ request.uid = "u1"
    /\ request.password = "p2"
    /\ response.status = 401
    /\ user_credentials["u1"] = Record("e1", "p1")
    /\ ~user_credentials["s1"].present

\* the request being served is one of those that open a vendor session to
\* list or probe the account: the logins, the device page and list, and the
\* webhook's list-devices branch
SessionScopedRequest ==
    \/ request.handler \in {"login", "api_login", "devices_page", "list_devices_api"}
    \/ /\ request.handler = "omi_webhook"
       /\ AnyPhraseIn(ListPhrases, extract_text_from_segments(request.segments))
       /\ ~AnyPhraseIn(SetupPhrases, extract_text_from_segments(request.segments))

\* C19: when such a request has been answered, every session opened while
\* serving it has been logged out exactly once.
C19_SessionsClosedWithinRequest ==
    (SessionScopedRequest /\ response # NoResponse)
        => \A s \in 1..SessionCount : LogoutCount(s) = 1

(***************************************************************************)
(* The webhook without credentials (Spec).                                 *)
(***************************************************************************)
\* the uid the webhook request is served for
WebhookUid ==
    IF request.uid \notin {None_, ""} THEN request.uid ELSE request.session_id

\* the webhook request being served has neither both credential cookies nor
\* a complete stored record for its uid
WebhookWithoutCredentials ==
    /\ request.handler = "omi_webhook"
    /\ \/ request.meross_email \in {None_, ""}
       \/ request.meross_password \in {None_, ""}
    /\ ~(/\ WebhookUid \in Uids
         /\ user_credentials[WebhookUid].present
         /\ user_credentials[WebhookUid].email \notin {None_, ""}
         /\ user_credentials[WebhookUid].password \notin {None_, ""})

\* the messages that tell the user to configure credentials
ConfigureMessages ==
    {"Please configure", "Please visit /login", "Please configure first",
     "Please configure first. Visit"}

\* no external call was made, and the answer, once given, is HTTP 200 with a
\* message telling the user to configure credentials
AnsweredConfigure ==
    /\ events = <<>>
    /\ response # NoResponse
          => /\ response.status = 200
             /\ response.body.status = "success"
             /\ response.body.message.tag \in ConfigureMessages

\* C20 as stated: every webhook request without credentials makes no
\* language-model call, opens no session, issues no command, and is
\* answered HTTP 200 with a configure message.
C20_NoCredentialsAnsweredConfigure ==
    WebhookWithoutCredentials => AnsweredConfigure

\* C20 amended: every webhook request without credentials that carries a
\* non-empty session_id makes no language-model call, opens no session,
\* issues no command, and is answered HTTP 200 with a configure message; a
\* request with an empty session_id makes no external call either and is
\* answered HTTP 400.
C20_NoCredentialsWithSessionIdAnsweredConfigure ==
    WebhookWithoutCredentials
        => IF request.session_id \notin {None_, ""}
           THEN AnsweredConfigure
           ELSE /\ events = <<>>
                /\ response # NoResponse => response.status = 400

\* C20 witness: a webhook request with a device command in its transcript,
\* only the email cookie, and a uid that has no record while another uid
\* has one, has been answered with the configure message
C20_Witness ==
    /\ request.handler = "omi_webhook"
    /\ request.session_id = "s1"
    /\ request.uid = None_
    /\ request.meross_email = "e1"
    /\ request.meross_password = None_
    /\ user_credentials["u1"].present
    /\ ~user_credentials["s1"].present
    /\ extract_text_from_segments(request.segments) = T_TurnOn
    /\ response.status = 200
    /\ response.body.message.tag = "Please configure first. Visit"

(***************************************************************************)
(* Event loop properties (SpecLoop).                                       *)
(***************************************************************************)
\* the handler of task t is waiting on an external call or on the backoff
\* sleep between two attempts of one
InExternalCall(t) == tasks[t].pc \in {"external", "backoff"}

\* C15: no request handler holds the event loop while it waits on an
\* external call (including the retry backoff), so that any other in-flight
\* request that is ready can run.
C15_LoopNotHeldAcrossExternalCall ==
    \A t \in 1..NTasks : InExternalCall(t) => loop # t

(***************************************************************************)
(* The two sessions of perform_device_action by name (Spec).               *)
(***************************************************************************)
\* the positions in the log of the events e on session s
EventIndexes(e, s) == {i \in DOMAIN events : events[i].e = e /\ events[i].s = s}

\* perform_device_action, called without a device_uuid for turn_on or
\* turn_off on a non-empty device list, is about to return
PdaByNameReturns ==
    /\ Running({"perform_device_action"}, "after_cleanup")
    /\ Top.pending.kind = "ok"
    /\ Top.device_uuid = None_
    /\ Top.action \in {"turn_on", "turn_off"}
    /\ Top.devices # <<>>

\* C23: when perform_device_action by name returns, it has acquired exactly
\* two sessions, the second while the first was not yet logged out, and
\* each has been logged out exactly once, the second before the first.
C23_TwoNestedSessionsReleasedInnerFirst ==
    PdaByNameReturns
        => LET outer == Top.base + 1
               inner == Top.base + 2
           IN  /\ SessionCount = inner
               /\ \A o \in EventIndexes("logout", outer), l \in EventIndexes("login", inner) :
                     l < o
               /\ LogoutCount(outer) = 1
               /\ LogoutCount(inner) = 1
               /\ \A o \in EventIndexes("logout", outer), i \in EventIndexes("logout", inner) :
                     i < o

(***************************************************************************)
(* The voice endpoint after a successful inference (Spec).                 *)
(***************************************************************************)
\* handle_voice_command holds a transcript and has just received a JSON
\* object from infer_intent_from_transcript
VoiceInferred ==
    /\ Running({"handle_voice_command"}, "after_infer_intent")
    /\ ret.kind = "ok"
    /\ ret.val.object

\* the request carries both credential cookies
VoiceCredentialsPresent ==
    ~Falsy(request.meross_email) /\ ~Falsy(request.meross_password)

\* C21: once transcription and inference have both succeeded on a /voice
\* request, the handler executes the device action exactly when the action
\* is turn_on or turn_off and credentials are present, and otherwise
\* returns status "success" with the transcript and the intent, unexecuted,
\* with the credentials-missing message when the action is turn_on or
\* turn_off and credentials are absent.
C21_VoiceSucceedsAfterInference ==
    [][VoiceInferred =>
          LET intent == ret.val
              wanted == IntentGet(intent, "action", None_) \in {"turn_on", "turn_off"}
          IN  IF wanted /\ VoiceCredentialsPresent
              THEN /\ Len(stack') = Len(stack) + 1
                   /\ stack'[Len(stack')].fn = "perform_device_action"
                   /\ stack'[Len(stack')].action = intent.action
              ELSE /\ ret'.kind = "ok"
                   /\ ret'.val = VoiceCommandResponse(
                          Top.transcript, intent,
                          [executed |-> FALSE,
                           message |-> IF wanted THEN "Meross credentials missing"
                                       ELSE None_])]_vars

(***************************************************************************)
(* The webhook's two reads of the Credential Store (SpecFallback).         *)
(***************************************************************************)
\* the webhook handler of task t has read has_creds as true and goes on to
\* intent inference and the vendor call
ProceedsWithCredentials(t) ==
    /\ tasks[t].handler = "omi_webhook"
    /\ FallbackStage(tasks[t]) \in {"llm", "vendor"}
    /\ tasks[t].has_creds

\* C22: whatever logins run concurrently for the same uid, a webhook
\* handler that proceeds with has_creds true holds a non-empty email and a
\* non-empty password that were stored together as one record.
C22_FallbackReadsAgree ==
    \A t \in 1..NTasks :
        ProceedsWithCredentials(t)
            => /\ ~Falsy(tasks[t].email)
               /\ ~Falsy(tasks[t].password)
               /\ <<tasks[t].email, tasks[t].password>> \in StoredPairs

\* C22: a webhook handler is in its vendor call with has_creds true while
\* a login for the same uid, holding other credentials, waits to store them
C22_Witness ==
    \E t, o \in 1..NTasks :
        /\ ProceedsWithCredentials(t)
        /\ tasks[t].pc = "external"
        /\ tasks[o].handler \in LoginHandlers
        /\ tasks[o].uid = tasks[t].uid
        /\ tasks[o].email # tasks[t].email
        /\ FallbackStage(tasks[o]) = "set_user_credentials"

====
